---- MODULE Spec2Model ----
(***************************************************************************)
(* Model of the sentinel hybrid routing engine: the module registry        *)
(* (tools/mod.rs), the validator, the keyword router and the four-stage    *)
(* fallback chain (engine.rs), and the cloud retry loop (cloud.rs).        *)
(*                                                                         *)
(* Conventions.  Text (user input, string arguments) is a sequence of      *)
(* one-character strings, so that lower-casing, tokenizing and substring   *)
(* tests are computed as the code computes them.  Tool names, module names *)
(* and argument keys are only ever compared for equality and are strings.  *)
(* A HashMap or JSON object is a set of <<key, value>> pairs with unique   *)
(* keys.  Confidences are in hundredths (0.85 is 85).  Vec indices are     *)
(* 0-based as in the code; TLA+ sequences are 1-based, hence the +1.       *)
(***************************************************************************)
EXTENDS Integers, Sequences, FiniteSets, TLC

\* ------------------------------------------------------------------ bounds
\* Number of register calls made while the registry is being built.
MaxRegs == 3

\* ------------------------------------------------------------ maps, Option
MapHas(map, k) == \E p \in map : p[1] = k
MapGet(map, k) == (CHOOSE p \in map : p[1] = k)[2]
MapPut(map, k, v) == {p \in map : p[1] # k} \cup {<<k, v>>}
MapKeys(map) == {p[1] : p \in map}

None == [some |-> FALSE]
Some(x) == [some |-> TRUE, val |-> x]

\* ------------------------------------------------------------------- text
UpperChars == <<"A","B","C","D","E","F","G","H","I","J","K","L","M","N","O","P","Q","R","S","T","U","V","W","X","Y","Z">>
LowerChars == <<"a","b","c","d","e","f","g","h","i","j","k","l","m","n","o","p","q","r","s","t","u","v","w","x","y","z">>
DigitChars == <<"0","1","2","3","4","5","6","7","8","9">>
Range(s) == {s[i] : i \in 1..Len(s)}

\* char::is_alphanumeric and str::to_lowercase, on the ASCII characters used
IsAlphanumeric(c) == c \in Range(UpperChars) \cup Range(LowerChars) \cup Range(DigitChars)
IsWhitespace(c) == c = " "
LowerChar(c) ==
    IF c \in Range(UpperChars)
    THEN LowerChars[CHOOSE i \in 1..Len(UpperChars) : UpperChars[i] = c]
    ELSE c
\* faulty variant: the text is left as it is
to_lowercase_Identity(s) == s
to_lowercase(s) == [i \in 1..Len(s) |-> LowerChar(s[i])]

\* str::contains: kw occurs as a contiguous substring of s
Contains(s, kw) ==
    \E i \in 1..(Len(s) - Len(kw) + 1) : SubSeq(s, i, i + Len(kw) - 1) = kw

\* str::trim().is_empty()
TrimIsEmpty(s) == \A i \in 1..Len(s) : IsWhitespace(s[i])

\* Split s at the characters satisfying the separator test and drop the empty
\* pieces: the maximal runs of non-separator characters, in order.
RECURSIVE SplitRuns(_, _, _, _)
SplitRuns(s, i, cur, isSep) ==
    IF i > Len(s)
    THEN IF cur = <<>> THEN <<>> ELSE <<cur>>
    ELSE IF s[i] \in isSep
         THEN (IF cur = <<>> THEN <<>> ELSE <<cur>>) \o SplitRuns(s, i + 1, <<>>, isSep)
         ELSE SplitRuns(s, i + 1, Append(cur, s[i]), isSep)

split_whitespace(s) == SplitRuns(s, 1, <<>>, {c \in Range(s) : IsWhitespace(c)})

extract_words(s) ==
    LET l == to_lowercase(s)
    IN  SplitRuns(l, 1, <<>>, {c \in Range(l) : ~IsAlphanumeric(c)})

\* ------------------------------------------------------------ JSON values
\* serde_json::Value as far as the core looks at it: the kind, the string
\* (kind "string") and the number (kind "int"; kind "float" in hundredths;
\* kind "bool" as 0/1).
JNull == [t |-> "null", s |-> <<>>, n |-> 0]
JStr(s) == [t |-> "string", s |-> s, n |-> 0]
JInt(n) == [t |-> "int", s |-> <<>>, n |-> n]
JFloat(h) == [t |-> "float", s |-> <<>>, n |-> h]
JBool(b) == [t |-> "bool", s |-> <<>>, n |-> IF b THEN 1 ELSE 0]
\* A nested object, with the one string member it holds
JObject(s) == [t |-> "object", s |-> s, n |-> 0]

\* A call's arguments: a JSON object (isObj, with its fields) or anything else.
Obj(fields) == [isObj |-> TRUE, fields |-> fields]
NotObj == [isObj |-> FALSE, fields |-> {}]
EmptyObj == Obj({})

\* Value::get(key): Some on an object holding the key, None otherwise
ArgHas(args, key) == args.isObj /\ MapHas(args.fields, key)
ArgGet(args, key) == MapGet(args.fields, key)

\* ------------------------------------------------------- tools and modules
\* ToolDefinition: the name and, of the parameter schema, the properties
\* (key -> type) and the required list.
ToolDefinition(name, props, required) ==
    [name |-> name, props |-> props, required |-> required]
NoParams(name) == ToolDefinition(name, {}, <<>>)

\* MacTroubleshootModule::tools
MacTools ==
    << NoParams("monitor_cpu"), NoParams("monitor_memory"), NoParams("monitor_disk"),
       NoParams("monitor_network"), NoParams("diagnose_network"),
       NoParams("diagnose_battery"),
       ToolDefinition("kill_process", {<<"process_name", "string">>}, <<"process_name">>),
       ToolDefinition("clear_caches", {<<"target", "string">>}, <<"target">>),
       NoParams("check_startup_items"), NoParams("check_security"),
       NoParams("run_full_checkup"),
       ToolDefinition("troubleshoot", {<<"problem", "string">>}, <<"problem">>) >>

\* AutoMechanicModule::tools
AutoTools ==
    << NoParams("check_engine"), NoParams("check_tires"),
       NoParams("check_battery_vehicle"), NoParams("check_fluids"),
       NoParams("run_vehicle_checkup") >>

\* Two further implementations of the ToolModule trait, as a plug-in or a test
\* double may provide them: one whose later tool names are also tools of
\* auto_mechanic and of mac_troubleshoot, and one that declares the same tool name twice.
PluginTools ==
    << ToolDefinition("scan_ports", {<<"host", "string">>, <<"count", "integer">>}, <<"host">>),
       NoParams("check_engine"),
       NoParams("monitor_cpu") >>
DupTools == << NoParams("ping"), NoParams("ping") >>
\* A module with a single tool
SoloTools == << NoParams("monitor_cpu") >>

Modules == {"Mac", "Auto", "Plugin", "Dup", "Solo"}

\* ToolModule::name
ModuleName(m) ==
    CASE m = "Mac" -> "mac_troubleshoot"
      [] m = "Auto" -> "auto_mechanic"
      [] m = "Plugin" -> "plugin"
      [] m = "Dup" -> "dup"
      [] m = "Solo" -> "solo"

\* ToolModule::tools
ModuleTools(m) ==
    CASE m = "Mac" -> MacTools
      [] m = "Auto" -> AutoTools
      [] m = "Plugin" -> PluginTools
      [] m = "Dup" -> DupTools
      [] m = "Solo" -> SoloTools

ToolNames(tools) == {tools[i].name : i \in 1..Len(tools)}
Declares(m, name) == name \in ToolNames(ModuleTools(m))

\* ToolResult.  success and error are the struct's fields; requires_cloud is
\* the one field of data the router reads; tool and module record which
\* module execution produced the value.
ToolResult(success, requires_cloud, error, tool, module) ==
    [success |-> success, requires_cloud |-> requires_cloud, error |-> error,
     tool |-> tool, module |-> module]

\* kill_process: the forbidden list is matched case-sensitively by contains;
\* killed is the exit status of pkill.
Forbidden ==
    { <<"k","e","r","n","e","l","_","t","a","s","k">>, <<"l","a","u","n","c","h","d">>,
      <<"W","i","n","d","o","w","S","e","r","v","e","r">>,
      <<"l","o","g","i","n","w","i","n","d","o","w">> }

kill_process(args, killed) ==
    IF ~(ArgHas(args, "process_name") /\ ArgGet(args, "process_name").t = "string")
    THEN ToolResult(FALSE, FALSE, "Missing required parameter: process_name",
                    "kill_process", "Mac")
    ELSE IF \E f \in Forbidden : Contains(ArgGet(args, "process_name").s, f)
    THEN ToolResult(FALSE, FALSE, "Refusing to kill system-critical process",
                    "kill_process", "Mac")
    ELSE ToolResult(killed, FALSE,
                    IF killed THEN "" ELSE "Process not found or could not be killed",
                    "kill_process", "Mac")

\* troubleshoot: always asks for the cloud
troubleshoot(args) == ToolResult(TRUE, TRUE, "", "troubleshoot", "Mac")

UnknownTool(tool, module) == ToolResult(FALSE, FALSE, "Unknown tool", tool, module)

\* faulty variant: the match dispatches every declared name to the first arm
ModuleExecute_FirstArm(m, tool, args, killed) ==
    IF ~Declares(m, tool) THEN UnknownTool(tool, m)
    ELSE ToolResult(TRUE, FALSE, "", ModuleTools(m)[1].name, m)

\* ToolModule::execute of module m.  The shell-backed and canned tools return
\* success; a name the module does not match returns the Unknown tool failure.
ModuleExecute(m, tool, args, killed) ==
    IF ~Declares(m, tool) THEN UnknownTool(tool, m)
    ELSE IF m = "Mac" /\ tool = "kill_process" THEN kill_process(args, killed)
    ELSE IF m = "Mac" /\ tool = "troubleshoot" THEN troubleshoot(args)
    ELSE ToolResult(TRUE, FALSE, "", tool, m)

\* --------------------------------------------------------- ModuleRegistry
\* register: the loop over module.tools().  idx is modules.len(); a name found
\* in tool_index returns Err after evaluating modules[existing_idx].name(),
\* which panics when existing_idx is out of bounds; the names inserted before
\* the collision stay in tool_index.
RECURSIVE RegisterLoop(_, _, _, _)
RegisterLoop(mods, index, m, i) ==
    IF i > Len(ModuleTools(m))
    THEN [outcome |-> "ok", modules |-> Append(mods, m), tool_index |-> index]
    ELSE LET name == ModuleTools(m)[i].name
         IN  IF MapHas(index, name)
             THEN [outcome |-> IF MapGet(index, name) < Len(mods) THEN "err" ELSE "panic",
                   modules |-> mods, tool_index |-> index]
             ELSE RegisterLoop(mods, MapPut(index, name, Len(mods)), m, i + 1)

register(mods, index, m) == RegisterLoop(mods, index, m, 1)

\* all_tools
all_tools(mods) ==
    LET RECURSIVE Flat(_)
        Flat(i) == IF i > Len(mods) THEN <<>> ELSE ModuleTools(mods[i]) \o Flat(i + 1)
    IN  Flat(1)

\* module_tools
\* faulty variant: the tools of every module, whatever its name
module_tools_Unfiltered(mods, module_name) == all_tools(mods)
module_tools(mods, module_name) ==
    LET RECURSIVE Flat(_)
        Flat(i) ==
            IF i > Len(mods) THEN <<>>
            ELSE (IF ModuleName(mods[i]) = module_name THEN ModuleTools(mods[i]) ELSE <<>>)
                 \o Flat(i + 1)
    IN  Flat(1)

\* has_tool
has_tool(index, tool_name) == MapHas(index, tool_name)

\* The slice index modules[idx] of execute and tool_belongs_to_module panics
\* when the indexed position holds no module.
IndexPanics(mods, index, tool_name) ==
    MapHas(index, tool_name) /\ MapGet(index, tool_name) >= Len(mods)

\* tool_belongs_to_module (where it does not panic)
tool_belongs_to_module(mods, index, tool_name, module_name) ==
    /\ MapHas(index, tool_name)
    /\ ModuleName(mods[MapGet(index, tool_name) + 1]) = module_name

\* execute (where it does not panic)
\* faulty variant: every indexed name is dispatched to the first module
execute_FirstModule(mods, index, tool_name, args, killed) ==
    IF MapHas(index, tool_name)
    THEN ModuleExecute(mods[1], tool_name, args, killed)
    ELSE UnknownTool(tool_name, "registry")
execute(mods, index, tool_name, args, killed) ==
    IF MapHas(index, tool_name)
    THEN ModuleExecute(mods[MapGet(index, tool_name) + 1], tool_name, args, killed)
    ELSE UnknownTool(tool_name, "registry")

\* -------------------------------------------------------------- Validator
\* The first ToolDefinition of that name (tools.iter().find)
FindTool(tools, name) == tools[CHOOSE i \in 1..Len(tools) :
                                 tools[i].name = name /\ \A j \in 1..(i - 1) : tools[j].name # name]

\* faulty variant: the required list is looked at only when the arguments are an object
RequiredPresent_ObjectsOnly(tool_def, args) ==
    args.isObj => \A i \in 1..Len(tool_def.required) : ArgHas(args, tool_def.required[i])
\* Every name of the required list is a key of the arguments
RequiredPresent(tool_def, args) ==
    \A i \in 1..Len(tool_def.required) : ArgHas(args, tool_def.required[i])

\* faulty variant: a declared string is checked only when the value is a string
ValueChecks_StringsOnly(tool_def, args) ==
    \A p \in args.fields :
        MapHas(tool_def.props, p[1]) =>
            LET prop_type == MapGet(tool_def.props, p[1])
                val == p[2]
            IN  /\ (prop_type = "string" /\ val.t = "string") => ~TrimIsEmpty(val.s)
                /\ (prop_type = "integer") => ~(val.t \in {"int", "float"} /\ val.n < 0)
\* The per-value checks on the arguments that the schema declares
ValueChecks(tool_def, args) ==
    \A p \in args.fields :
        MapHas(tool_def.props, p[1]) =>
            LET prop_type == MapGet(tool_def.props, p[1])
                val == p[2]
            IN  /\ (prop_type = "string") => (val.t = "string" /\ ~TrimIsEmpty(val.s))
                /\ (prop_type = "integer") => ~(val.t \in {"int", "float"} /\ val.n < 0)

\* Grounding: every word of every declared string value is a word of the message
Grounded(tool_def, args, user_message) ==
    LET msg_words == Range(extract_words(user_message))
    IN  \A p \in args.fields :
            (MapHas(tool_def.props, p[1]) /\ MapGet(tool_def.props, p[1]) = "string"
                /\ p[2].t = "string") =>
                LET val_words == extract_words(p[2].s)
                IN  val_words # <<>> /\ Range(val_words) \subseteq msg_words

CallValid(call, tools, user_message) ==
    /\ call.name \in ToolNames(tools)
    /\ LET tool_def == FindTool(tools, call.name)
       IN  /\ RequiredPresent(tool_def, call.arguments)
           /\ call.arguments.isObj =>
                 (ValueChecks(tool_def, call.arguments)
                    /\ Grounded(tool_def, call.arguments, user_message))

\* Confidence gate: tools.len() >= 3 && confidence < 0.9 rejects
GateTools == 3
GateConfidence == 90
\* faulty variant: the boundary 0.9 itself is rejected
ConfidenceGate_Exclusive(confidence, tools) ==
    ~(Len(tools) >= GateTools /\ confidence <= GateConfidence)
ConfidenceGate(confidence, tools) == ~(Len(tools) >= GateTools /\ confidence < GateConfidence)

\* faulty variant: only the first call is validated
validate_local_result_FirstOnly(function_calls, confidence, tools, user_message) ==
    /\ function_calls # <<>>
    /\ CallValid(function_calls[1], tools, user_message)
    /\ ConfidenceGate(confidence, tools)
\* faulty variant: an empty call list is not looked for
validate_local_result_NoEmptyCheck(function_calls, confidence, tools, user_message) ==
    /\ \A i \in 1..Len(function_calls) : CallValid(function_calls[i], tools, user_message)
    /\ ConfidenceGate(confidence, tools)
validate_local_result(function_calls, confidence, tools, user_message) ==
    /\ function_calls # <<>>
    /\ \A i \in 1..Len(function_calls) : CallValid(function_calls[i], tools, user_message)
    /\ ConfidenceGate(confidence, tools)

\* ------------------------------------------------- on-device capability
\* A reply of the capability: the call fails ("error"), the text is not JSON
\* ("garbage"), or it is a JSON value with an optional numeric confidence and
\* an optional function_calls array of raw calls, each with an optional
\* string name and optional arguments.
Reply(kind, confidence, calls) == [kind |-> kind, confidence |-> confidence, calls |-> calls]
RawCall(name, arguments) == [name |-> name, arguments |-> arguments]
Call(name, arguments) == [name |-> name, arguments |-> arguments]

\* The parsing half of cactus_route_at_temp: None, or (calls, confidence)
ParseReply(reply) ==
    IF reply.kind # "json" \/ ~reply.calls.some THEN None
    ELSE LET raw == reply.calls.val
         IN  IF \E i \in 1..Len(raw) : ~raw[i].name.some THEN None
             ELSE IF raw = <<>> THEN None
             ELSE Some([calls |-> [i \in 1..Len(raw) |->
                                      Call(raw[i].name.val,
                                           IF raw[i].arguments.some THEN raw[i].arguments.val
                                           ELSE EmptyObj)],
                        confidence |-> IF reply.confidence.some THEN reply.confidence.val ELSE 0])

\* let temperatures = [0.0, 0.3, 0.7], in hundredths
\* faulty variant: the ladder is descended
temperatures_Descending == <<70, 30, 0>>
temperatures == <<0, 30, 70>>

\* ----------------------------------------------------------- local_route
\* faulty variant: the arguments are left out of the tuple
Guess_NoArguments(name, args, conf) == [name |-> name, args |-> EmptyObj, conf |-> conf]
Guess(name, args, conf) == [name |-> name, args |-> args, conf |-> conf]

\* The process name of the kill branch: words.last(), or "unknown" when there
\* is no word or the last word is a trigger keyword itself.
\* faulty variant: the last word is used whatever it is
pname_LastWord(words) ==
    IF words = <<>> THEN <<"u","n","k","n","o","w","n">> ELSE words[Len(words)]
pname(words) ==
    LET process_name == IF words = <<>> THEN <<"u","n","k","n","o","w","n">> ELSE words[Len(words)]
    IN  IF process_name \in {<<"k","i","l","l">>, <<"q","u","i","t">>, <<"f","o","r","c","e">>, <<"p","r","o","c","e","s","s">>, <<"t","h","e">>, <<"a","p","p">>, <<"p","l","e","a","s","e">>}
        THEN <<"u","n","k","n","o","w","n">> ELSE process_name

\* The tool universe is a parameter of local_route that its body never reads.
local_route(input, _tools) ==
    LET lower == to_lowercase(input)
        words == split_whitespace(lower)
        has(keywords) == \E kw \in keywords : Contains(lower, kw)
        target == IF has({<<"m","e","m","o","r","y">>, <<"r","a","m">>}) THEN <<"m","e","m","o","r","y">>
                  ELSE IF has({<<"d","i","s","k">>, <<"s","t","o","r","a","g","e">>}) THEN <<"d","i","s","k">>
                  ELSE <<"b","o","t","h">>
    IN  IF has({<<"k","i","l","l">>, <<"q","u","i","t">>, <<"f","o","r","c","e">>})
        THEN Guess("kill_process", Obj({<<"process_name", JStr(pname(words))>>}), 85)
        ELSE IF has({<<"c","a","c","h","e">>, <<"c","l","e","a","r">>, <<"f","r","e","e">>})
        THEN Guess("clear_caches", Obj({<<"target", JStr(target)>>}), 85)
        ELSE IF has({<<"c","h","e","c","k","u","p">>, <<"h","e","a","l","t","h">>, <<"e","v","e","r","y","t","h","i","n","g">>, <<"f","u","l","l">>})
        THEN Guess("run_full_checkup", EmptyObj, 90)
        ELSE IF has({<<"b","a","t","t","e","r","y">>, <<"p","o","w","e","r">>, <<"c","h","a","r","g","i","n","g">>})
        THEN Guess("diagnose_battery", EmptyObj, 90)
        ELSE IF has({<<"n","e","t","w","o","r","k">>, <<"c","o","n","n","e","c","t","i","o","n">>, <<"w","i","f","i">>, <<"i","n","t","e","r","n","e","t">>})
        THEN (IF has({<<"b","r","o","k","e","n">>, <<"f","i","x">>, <<"d","i","a","g","n","o","s","e">>, <<"s","l","o","w">>, <<"i","s","s","u","e">>, <<"p","r","o","b","l","e","m">>})
              THEN Guess("diagnose_network", EmptyObj, 90)
              ELSE Guess("monitor_network", EmptyObj, 85))
        ELSE IF has({<<"s","t","a","r","t","u","p">>, <<"b","o","o","t">>, <<"l","o","g","i","n">>})
        THEN Guess("check_startup_items", EmptyObj, 85)
        ELSE IF has({<<"s","e","c","u","r","i","t","y">>, <<"s","e","c","u","r","e">>, <<"f","i","r","e","w","a","l","l">>, <<"u","p","d","a","t","e">>})
        THEN Guess("check_security", EmptyObj, 85)
        ELSE IF has({<<"c","p","u">>, <<"p","r","o","c","e","s","s","o","r">>})
        THEN Guess("monitor_cpu", EmptyObj, 90)
        ELSE IF has({<<"s","l","o","w">>})
        THEN Guess("monitor_cpu", EmptyObj, 80)
        ELSE IF has({<<"m","e","m","o","r","y">>, <<"r","a","m">>})
        THEN Guess("monitor_memory", EmptyObj, 90)
        ELSE IF has({<<"d","i","s","k">>, <<"s","t","o","r","a","g","e">>, <<"s","p","a","c","e">>})
        THEN Guess("monitor_disk", EmptyObj, 90)
        ELSE IF has({<<"v","e","h","i","c","l","e"," ","c","h","e","c","k","u","p">>, <<"c","a","r"," ","d","i","a","g","n","o","s","t","i","c">>, <<"c","a","r"," ","c","h","e","c","k","u","p">>})
        THEN Guess("run_vehicle_checkup", EmptyObj, 90)
        ELSE IF has({<<"e","n","g","i","n","e">>, <<"o","b","d">>, <<"d","t","c">>, <<"r","p","m">>})
        THEN Guess("check_engine", EmptyObj, 85)
        ELSE IF has({<<"t","i","r","e">>, <<"t","y","r","e">>, <<"t","r","e","a","d">>, <<"p","s","i">>})
        THEN Guess("check_tires", EmptyObj, 85)
        ELSE IF has({<<"v","o","l","t","a","g","e">>, <<"c","c","a">>, <<"a","l","t","e","r","n","a","t","o","r">>, <<"c","a","r"," ","b","a","t","t","e","r","y">>})
        THEN Guess("check_battery_vehicle", EmptyObj, 85)
        ELSE IF has({<<"f","l","u","i","d">>, <<"o","i","l"," ","l","e","v","e","l">>, <<"c","o","o","l","a","n","t">>, <<"b","r","a","k","e"," ","f","l","u","i","d">>, <<"t","r","a","n","s","m","i","s","s","i","o","n"," ","f","l","u","i","d">>})
        THEN Guess("check_fluids", EmptyObj, 85)
        ELSE Guess("troubleshoot", Obj({<<"problem", JStr(input)>>}), 30)

\* ------------------------------------------------------------------ cloud
\* clean_args: numbers that survive the round trip through i64 become
\* integers, trailing punctuation is stripped from strings; only the top level
\* of an object is touched.
Punctuation == {".", ",", "!", "?", ";", ":"}
RECURSIVE trim_end_matches(_)
trim_end_matches(s) ==
    IF s # <<>> /\ s[Len(s)] \in Punctuation
    THEN trim_end_matches(SubSeq(s, 1, Len(s) - 1))
    ELSE s

\* The two number types of the conversion, scaled down: i64 is an integer of
\* IntBits bits, f64 a float whose mantissa holds MantissaBits bits, so that
\* the integers above 2^MantissaBits that no float equals, and the floats
\* from 2^(IntBits-1) on that no integer equals, are within reach.
IntBits == 8
MantissaBits == 6
IntMax == 2^(IntBits - 1) - 1
IntMin == 0 - 2^(IntBits - 1)

\* i as f64: the nearest float, ties to the even mantissa
I64AsF64(i) ==
    LET a == IF i < 0 THEN 0 - i ELSE i
        k == CHOOSE e \in 0..IntBits : a < 2^(MantissaBits + e)
                                        /\ (e = 0 \/ a >= 2^(MantissaBits + e - 1))
        ulp == 2^k
        q == a \div ulp
        r == a % ulp
        m == IF 2 * r < ulp THEN q
             ELSE IF 2 * r > ulp THEN q + 1
             ELSE IF q % 2 = 0 THEN q ELSE q + 1
    IN  IF i < 0 THEN 0 - (m * ulp) ELSE m * ulp

\* f as i64, f in hundredths: truncated towards zero and saturated
F64AsI64(h) ==
    LET t == IF h < 0 THEN 0 - ((0 - h) \div 100) ELSE h \div 100
    IN  IF t > IntMax THEN IntMax ELSE IF t < IntMin THEN IntMin ELSE t

\* Number::as_f64, in hundredths
as_f64(v) == IF v.t = "int" THEN 100 * I64AsF64(v.n) ELSE v.n

CleanValue(v) ==
    IF v.t \in {"int", "float"}
    THEN LET f == as_f64(v)
         IN  IF f = 100 * I64AsF64(F64AsI64(f)) THEN JInt(F64AsI64(f)) ELSE v
    ELSE IF v.t = "string" THEN JStr(trim_end_matches(v.s))
    ELSE v

clean_args(raw_args) ==
    IF raw_args.isObj
    THEN Obj({<<p[1], CleanValue(p[2])>> : p \in raw_args.fields})
    ELSE raw_args

\* What one HTTP exchange of call_gemini yields: "fail" (the request or the
\* JSON decoding failed) or the functionCall parts of the response in order,
\* each with its name ("" when the name is missing) and its raw args.
HttpFail == [ok |-> FALSE, parts |-> <<>>]
HttpOk(parts) == [ok |-> TRUE, parts |-> parts]

\* The function_calls of the CloudResult built from the parts: arguments
\* cleaned, parts with an empty name dropped.
RECURSIVE CloudCalls(_)
CloudCalls(parts) ==
    IF parts = <<>> THEN <<>>
    ELSE (IF parts[1].name # "" THEN <<Call(parts[1].name, clean_args(parts[1].arguments))>>
          ELSE <<>>) \o CloudCalls(Tail(parts))

\* call_gemini: None without a request when GEMINI_API_KEY is unset or empty
call_gemini(api_key, http) ==
    IF api_key # "set" THEN None
    ELSE IF ~http.ok THEN None
    ELSE Some(CloudCalls(http.parts))

\* call_gemini_with_retry(user_input, &tools, 3)
MaxRetries == 3
\* Duration::from_millis(1000 * (attempt + 1))
BackoffUnit == 1000

\* ----------------------------------------------------------------- inputs
Texts ==
    { <<"s","h","o","w"," ","c","p","u"," ","u","s","a","g","e">>,
      <<"w","h","y"," ","i","s"," ","m","y"," ","s","c","r","e","e","n"," ","p","u","r","p","l","e","?">>,
      <<"k","i","l","l"," ","S","a","f","a","r","i">>,
      <<"k","i","l","l"," ","W","i","n","d","o","w","S","e","r","v","e","r">>,
      <<"c","h","e","c","k"," ","e","n","g","i","n","e">> }

Filters == {None, Some("mac_troubleshoot"), Some("auto_mechanic"), Some("plugin")}

Replies ==
    { Reply("error", None, None),
      Reply("garbage", None, None),
      Reply("json", Some(95), None),
      Reply("json", Some(95), Some(<<RawCall(None, None)>>)),
      Reply("json", Some(95),
            Some(<<RawCall(Some("kill_process"),
                           Some(Obj({<<"process_name", JStr(<<"S","a","f","a","r","i">>)>>})))>>)),
      Reply("json", Some(89), Some(<<RawCall(Some("monitor_cpu"), None)>>)),
      Reply("json", Some(90), Some(<<RawCall(Some("monitor_cpu"), Some(EmptyObj))>>)),
      Reply("json", None, Some(<<RawCall(Some("monitor_cpu"), Some(EmptyObj))>>)),
      Reply("json", Some(150), Some(<<RawCall(Some("monitor_cpu"), Some(EmptyObj))>>)),
      Reply("json", Some(95),
            Some(<<RawCall(Some("troubleshoot"),
                           Some(Obj({<<"problem", JStr(<<"s","c","r","e","e","n"," ","p","u","r","p","l","e">>)>>})))>>)),
      Reply("json", Some(100),
            Some(<<RawCall(Some("monitor_cpu"), Some(EmptyObj)),
                   RawCall(Some("bogus"), Some(EmptyObj))>>)) }

HttpResults ==
    { HttpFail,
      HttpOk(<<>>),
      HttpOk(<<Call("monitor_cpu", EmptyObj)>>),
      HttpOk(<<Call("", EmptyObj), Call("scan_ports", Obj({<<"host", JStr(<<"l","o","c","a","l","h","o","s","t",".">>)>>}))>>),
      HttpOk(<<Call("check_engine", EmptyObj), Call("monitor_cpu", EmptyObj)>>),
      HttpOk(<<Call("bogus", NotObj)>>) }

DirectNames == {"monitor_cpu", "scan_ports", "nonexistent_tool"}

\* ------------------------------------------------------------------ state
VARIABLES
    modules,        \* ModuleRegistry.modules: the registered modules, in order
    tool_index,     \* ModuleRegistry.tool_index: tool name -> index into modules
    nregs,          \* number of register calls made so far
    lastReg,        \* the module and the outcome of the latest register call
    api_key,        \* GEMINI_API_KEY: "unset", "empty" or "set"
    model,          \* HybridEngine.model is Some
    pc,             \* where the program is
    panic_site,     \* the operation that panicked, if one did
    user_input,     \* route's user_input
    module_filter,  \* route's module_filter
    tools,          \* route's tools: the tool universe of the request
    attempt,        \* ladder steps of cactus_route_with_retries taken
    ffi_log,        \* operations on the on-device capability, in order
    od,             \* what cactus_route_with_retries returned
    accepted_reply, \* the reply of the capability that od was parsed from
    kw,             \* what local_route returned
    cloud_attempt,  \* call_gemini_with_retry's loop variable
    cloud_calls,    \* number of call_gemini invocations
    sleeps,         \* the backoff sleeps, in order, in milliseconds
    cloud,          \* what call_gemini_with_retry returned
    executed,       \* the registry.execute calls of the request, in order
    stages,         \* the stages of route entered, in order
    decision,       \* the RouteResult returned
    lastExec,       \* what the execute_tool handler returned
    unit,           \* a direct call of one of the core's functions: inputs and result
    conc            \* the handlers in flight: the AppState mutex, the tasks, the capability's log, Whisper

regVars == <<modules, tool_index, nregs, lastReg>>
envVars == <<api_key, model>>
envVarsP == <<api_key, model, panic_site, unit, conc>>
reqVars == <<user_input, module_filter, tools>>
odVars == <<attempt, ffi_log, od, accepted_reply>>
cloudVars == <<cloud_attempt, cloud_calls, sleeps, cloud>>
vars == <<modules, tool_index, nregs, lastReg, api_key, model, pc, panic_site, user_input,
          module_filter, tools, attempt, ffi_log, od, accepted_reply, kw, cloud_attempt, cloud_calls,
          sleeps, cloud, executed, stages, decision, lastExec, unit, conc>>

\* No handler has been invoked: the mutex is free and nothing has touched the capability
NoTasks ==
    [holder |-> 0, queue |-> <<>>, tasks |-> <<>>, log |-> <<>>,
     whisper_ready |-> FALSE, whisper_failed |-> FALSE, whisper_log |-> <<>>]

Init ==
    /\ modules = <<>>
    /\ tool_index = {}
    /\ nregs = 0
    /\ lastReg = [module |-> "", outcome |-> "none"]
    /\ api_key \in {"unset", "empty", "set"}
    /\ model = FALSE
    /\ pc = "setup"
    /\ panic_site = ""
    /\ user_input = <<>>
    /\ module_filter = None
    /\ tools = <<>>
    /\ attempt = 0
    /\ ffi_log = <<>>
    /\ od = None
    /\ accepted_reply = None
    /\ kw = None
    /\ cloud_attempt = 0
    /\ cloud_calls = 0
    /\ sleeps = <<>>
    /\ cloud = None
    /\ executed = <<>>
    /\ stages = <<>>
    /\ decision = None
    /\ lastExec = None
    /\ unit = None
    /\ conc = NoTasks

\* A panic ends the program where it is.
Panic(site) ==
    /\ pc' = "panicked"
    /\ panic_site' = site
    /\ UNCHANGED <<regVars, envVars, unit, conc, reqVars, odVars, kw, cloudVars, executed, stages,
                   decision, lastExec>>

\* ----------------------------------------------------------------- startup
\* registry.register(module), while the registry is still owned mutably
Register(m) ==
    /\ pc = "setup"
    /\ nregs < MaxRegs
    /\ LET r == register(modules, tool_index, m)
       IN  /\ modules' = r.modules
           /\ tool_index' = r.tool_index
           /\ lastReg' = [module |-> m, outcome |-> r.outcome]
           /\ pc' = IF r.outcome = "panic" THEN "panicked" ELSE "setup"
           /\ panic_site' = IF r.outcome = "panic" THEN "register" ELSE panic_site
    /\ nregs' = nregs + 1
    /\ UNCHANGED <<envVars, unit, conc, reqVars, odVars, kw, cloudVars, executed, stages, decision,
                   lastExec>>

\* HybridEngine::new(Arc::new(registry), model): the registry is read-only from
\* here on; the on-device model was loaded or not.
Build(m) ==
    /\ pc = "setup"
    /\ model' = m
    /\ pc' = "idle"
    /\ UNCHANGED <<regVars, api_key, panic_site, unit, conc, reqVars, odVars, kw, cloudVars, executed, stages,
                   decision, lastExec>>

\* The execute_tool handler: registry.execute(tool_name, args)
ExecuteTool(name) ==
    /\ pc = "idle"
    /\ IF IndexPanics(modules, tool_index, name)
       THEN Panic("execute_tool")
       ELSE /\ lastExec' = Some(execute(modules, tool_index, name, EmptyObj, TRUE))
            /\ pc' = "done"
            /\ UNCHANGED <<regVars, envVarsP, reqVars, odVars, kw, cloudVars, executed,
                           stages, decision>>

\* ------------------------------------------------------------------- route
\* RouteResult, without latency_ms
RouteResult(tool_name, arguments, source, confidence, tool_result) ==
    [tool_name |-> tool_name, arguments |-> arguments, source |-> source,
     confidence |-> confidence, tool_result |-> tool_result]

\* One registry.execute call of route: the tool, the arguments, the step of
\* route that made the call and the ToolResult it got.
Execution(tool, args, stage, result) ==
    [tool |-> tool, args |-> args, stage |-> stage, result |-> result]

\* The tool_allowed closure of route, and whether evaluating it panics
tool_allowed(name) ==
    IF module_filter.some
    THEN tool_belongs_to_module(modules, tool_index, name, module_filter.val)
    ELSE has_tool(tool_index, name)
AllowedPanics(name) == module_filter.some /\ IndexPanics(modules, tool_index, name)

\* route's steps follow one another in the text of the function: a step that
\* does not return falls through to the next one.
\* faulty variant: the cloud step is tried before the keyword step
NextStage_CloudFirst(stage) ==
    CASE stage = 1 -> 3
      [] stage = 3 -> 2
      [] stage = 2 -> 4
NextStage(stage) == stage + 1
StagePc(stage) ==
    CASE stage = 1 -> "stage1"
      [] stage = 2 -> "stage2"
      [] stage = 3 -> "stage3"
      [] stage = 4 -> "stage4"

\* result.data.get("requires_cloud").and_then(as_bool).unwrap_or(false)
\* faulty variant: unwrap_or(true): every result counts as asking for the cloud
RequiresCloud_DefaultTrue(result) == TRUE
\* faulty variant: the signal of the result is not looked at
RequiresCloud_Ignored(result) == FALSE
RequiresCloud(result) == result.requires_cloud

\* The RouteResult each step returns
Stage1Result(call, confidence, result) ==
    RouteResult(call.name, call.arguments, "on-device", confidence, Some(result))
Stage2Result(g, result) ==
    RouteResult(g.name, g.args, "on-device", g.conf, Some(result))
\* faulty variant: the cloud step tags its result on-device
Stage3Result_OnDevice(fc, result) ==
    RouteResult(fc.name, fc.arguments, "on-device", 100, Some(result))
Stage3Result(fc, result) ==
    RouteResult(fc.name, fc.arguments, "cloud (fallback)", 100, Some(result))

\* Step 4 inserts no_api_key when std::env::var("GEMINI_API_KEY") is an Err,
\* that is when the variable is unset, and the arguments are an object.
FinalArgs(kw_args, key) ==
    IF key = "unset" /\ kw_args.isObj
    THEN Obj(MapPut(kw_args.fields, "no_api_key", JBool(TRUE)))
    ELSE kw_args
Stage4Result(g, key) ==
    RouteResult(g.name, FinalArgs(g.args, key), "cloud (fallback)", g.conf, None)

\* The step falls through: the next step begins
FallThrough(stage) ==
    /\ pc' = StagePc(NextStage(stage))
    /\ stages' = Append(stages, NextStage(stage))

\* route is called: the tool universe is selected and step 1 begins
ProcessCommand(input, filter) ==
    /\ pc = "idle"
    /\ user_input' = input
    /\ module_filter' = filter
    /\ tools' = IF filter.some THEN module_tools(modules, filter.val) ELSE all_tools(modules)
    /\ stages' = <<1>>
    /\ pc' = StagePc(1)
    /\ UNCHANGED <<regVars, envVarsP, odVars, kw, cloudVars, executed, decision, lastExec>>

\* The operations of one cactus_route_at_temp call on the capability:
\* model.reset(), then model.complete(..) with the temperature in its options
\* faulty variant: the conversation is not reset before the completion
AttemptOps_NoReset(temp) == <<[op |-> "complete", temperature |-> temp]>>
AttemptOps(temp) ==
    <<[op |-> "reset", temperature |-> temp], [op |-> "complete", temperature |-> temp]>>

\* One iteration of the temperature loop: cactus_route_at_temp (reset, complete,
\* parse) and validate_local_result.  Without a model the iteration returns
\* None before touching the capability.
OnDeviceAttempt(reply) ==
    /\ pc = "stage1"
    /\ attempt < Len(temperatures)
    /\ LET temp == temperatures[attempt + 1]
           parsed == IF model THEN ParseReply(reply) ELSE None
           accepted == /\ parsed.some
                       /\ validate_local_result(parsed.val.calls, parsed.val.confidence,
                                                tools, user_input)
       IN  /\ ffi_log' = IF model THEN ffi_log \o AttemptOps(temp) ELSE ffi_log
           /\ attempt' = attempt + 1
           /\ od' = IF accepted THEN parsed ELSE None
           /\ accepted_reply' = IF accepted THEN Some(reply) ELSE None
           /\ IF accepted
              THEN pc' = "stage1_check" /\ stages' = stages
              ELSE IF attempt + 1 = Len(temperatures)
              THEN FallThrough(1)
              ELSE pc' = "stage1" /\ stages' = stages
    /\ UNCHANGED <<regVars, envVarsP, reqVars, kw, cloudVars, executed, decision, lastExec>>

\* Step 1 after the ladder returned Some: the first call is checked against the
\* scope and executed; the result is returned unless it asks for the cloud.
Stage1Execute(killed) ==
    /\ pc = "stage1_check"
    /\ LET call == od.val.calls[1]
       IN  IF AllowedPanics(call.name) THEN Panic("route")
           ELSE IF ~tool_allowed(call.name)
           THEN /\ FallThrough(1)
                /\ UNCHANGED <<regVars, envVarsP, reqVars, odVars, kw, cloudVars, executed,
                               decision, lastExec>>
           ELSE IF IndexPanics(modules, tool_index, call.name) THEN Panic("route")
           ELSE LET result == execute(modules, tool_index, call.name, call.arguments, killed)
                IN  /\ executed' = Append(executed,
                                          Execution(call.name, call.arguments, 1, result))
                    /\ IF ~RequiresCloud(result)
                       THEN /\ decision' = Some(Stage1Result(call, od.val.confidence, result))
                            /\ pc' = "done"
                            /\ stages' = stages
                       ELSE /\ decision' = decision
                            /\ FallThrough(1)
                    /\ UNCHANGED <<regVars, envVarsP, reqVars, odVars, kw, cloudVars,
                                   lastExec>>

\* Step 2: the keyword router's guess is executed and returned when its
\* confidence is above 0.5 and its tool is allowed.
KwThreshold == 50
Stage2(killed) ==
    /\ pc = "stage2"
    /\ LET g == local_route(user_input, tools)
       IN  IF ~(g.conf > KwThreshold)
           THEN /\ kw' = Some(g)
                /\ FallThrough(2)
                /\ UNCHANGED <<regVars, envVarsP, reqVars, odVars, cloudVars, executed,
                               decision, lastExec>>
           ELSE IF AllowedPanics(g.name) THEN Panic("route")
           ELSE IF ~tool_allowed(g.name)
           THEN /\ kw' = Some(g)
                /\ FallThrough(2)
                /\ UNCHANGED <<regVars, envVarsP, reqVars, odVars, cloudVars, executed,
                               decision, lastExec>>
           ELSE IF IndexPanics(modules, tool_index, g.name) THEN Panic("route")
           ELSE LET result == execute(modules, tool_index, g.name, g.args, killed)
                IN  /\ kw' = Some(g)
                    /\ executed' = Append(executed, Execution(g.name, g.args, 2, result))
                    /\ decision' = Some(Stage2Result(g, result))
                    /\ pc' = "done"
                    /\ UNCHANGED <<regVars, envVarsP, reqVars, odVars, cloudVars, stages,
                                   lastExec>>

\* One iteration of call_gemini_with_retry's loop: call_gemini, then return
\* Some, or return None at once when the key is unset, or go on to the backoff
\* sleep, or fall out of the loop after the last attempt.
CloudAttempt(http) ==
    /\ pc = "stage3"
    /\ cloud_attempt < MaxRetries
    /\ (api_key # "set") => (http = HttpFail)
    /\ LET r == call_gemini(api_key, http)
       IN  /\ cloud_calls' = cloud_calls + 1
           /\ cloud' = r
           /\ IF r.some
              THEN /\ pc' = "stage3_check"
                   /\ cloud_attempt' = cloud_attempt
                   /\ stages' = stages
              ELSE IF api_key = "unset"
              THEN /\ FallThrough(3)
                   /\ cloud_attempt' = cloud_attempt
              ELSE IF cloud_attempt < MaxRetries - 1
              THEN /\ pc' = "backoff"
                   /\ cloud_attempt' = cloud_attempt
                   /\ stages' = stages
              ELSE /\ FallThrough(3)
                   /\ cloud_attempt' = cloud_attempt + 1
    /\ UNCHANGED <<regVars, envVarsP, reqVars, odVars, kw, sleeps, executed, decision,
                   lastExec>>

\* Duration::from_millis(1000 * (attempt as u64 + 1))
\* faulty variant: the same delay after every failed attempt
BackoffDelay_Constant(k) == BackoffUnit
BackoffDelay(k) == BackoffUnit * (k + 1)

\* tokio::time::sleep(..), then the next iteration
Backoff ==
    /\ pc = "backoff"
    /\ sleeps' = Append(sleeps, BackoffDelay(cloud_attempt))
    /\ cloud_attempt' = cloud_attempt + 1
    /\ pc' = "stage3"
    /\ UNCHANGED <<regVars, envVarsP, reqVars, odVars, kw, cloud_calls, cloud, executed,
                   stages, decision, lastExec>>

\* Step 3 after the cloud returned Some: function_calls.first() is checked
\* against the scope, executed and returned.
Stage3Execute(killed) ==
    /\ pc = "stage3_check"
    /\ IF cloud.val = <<>>
       THEN /\ FallThrough(3)
            /\ UNCHANGED <<regVars, envVarsP, reqVars, odVars, kw, cloudVars, executed,
                           decision, lastExec>>
       ELSE LET fc == cloud.val[1]
            IN  IF AllowedPanics(fc.name) THEN Panic("route")
                ELSE IF ~tool_allowed(fc.name)
                THEN /\ FallThrough(3)
                     /\ UNCHANGED <<regVars, envVarsP, reqVars, odVars, kw, cloudVars,
                                    executed, decision, lastExec>>
                ELSE IF IndexPanics(modules, tool_index, fc.name) THEN Panic("route")
                ELSE LET result == execute(modules, tool_index, fc.name, fc.arguments, killed)
                     IN  /\ executed' = Append(executed,
                                               Execution(fc.name, fc.arguments, 3, result))
                         /\ decision' = Some(Stage3Result(fc, result))
                         /\ pc' = "done"
                         /\ UNCHANGED <<regVars, envVarsP, reqVars, odVars, kw, cloudVars,
                                        stages, lastExec>>

\* Step 4: the keyword guess is returned unexecuted
Stage4 ==
    /\ pc = "stage4"
    /\ decision' = Some(Stage4Result(kw.val, api_key))
    /\ pc' = "done"
    /\ UNCHANGED <<regVars, envVarsP, reqVars, odVars, kw, cloudVars, executed, stages,
                   lastExec>>

RouteNext ==
    \/ \E reply \in Replies : OnDeviceAttempt(reply)
    \/ \E killed \in BOOLEAN : Stage1Execute(killed)
    \/ \E killed \in BOOLEAN : Stage2(killed)
    \/ \E http \in HttpResults : CloudAttempt(http)
    \/ Backoff
    \/ \E killed \in BOOLEAN : Stage3Execute(killed)
    \/ Stage4

Next ==
    \/ \E m \in Modules : Register(m)
    \/ \E m \in BOOLEAN : Build(m)
    \/ \E name \in DirectNames : ExecuteTool(name)
    \/ \E input \in Texts, filter \in Filters : ProcessCommand(input, filter)
    \/ RouteNext

Spec == Init /\ [][Next]_vars

\* The awaited calls of route return: a started request keeps taking steps.
FairSpec == Spec /\ WF_vars(RouteNext)

\* ------------------------------------------- the functions, called directly
\* validate_local_result, local_route and clean_args are functions of their
\* arguments: the unit tests call them with literal inputs.  The inputs below
\* are such literals.
UnitUniverses == { <<>>, SubSeq(PluginTools, 1, 2), PluginTools, MacTools, MacTools \o PluginTools }

UnitConfidences == {0 - 10, 0, 50, 89, 90, 100, 150}

UnitTexts ==
    { <<"k","i","l","l"," ","s","a","f","a","r","i"," ","p","l","e","a","s","e">>,
      <<"k","i","l","l"," ","c","h","r","o","m","e">>,
      <<"s","c","a","n"," ","l","o","c","a","l","h","o","s","t">> }

UnitCalls ==
    { <<>>,
      <<Call("monitor_cpu", EmptyObj)>>,
      <<Call("monitor_cpu", NotObj)>>,
      <<Call("bogus", EmptyObj)>>,
      <<Call("monitor_cpu", EmptyObj), Call("bogus", EmptyObj)>>,
      <<Call("monitor_cpu", Obj({<<"note", JStr(<<"p","u","r","p","l","e">>)>>}))>>,
      <<Call("kill_process", Obj({<<"process_name", JStr(<<"S","a","f","a","r","i">>)>>}))>>,
      <<Call("kill_process", Obj({<<"process_name", JStr(<<"S","a","f","a","r","i"," ","C","h","r","o","m","e">>)>>}))>>,
      <<Call("kill_process", Obj({<<"process_name", JStr(<<>>)>>}))>>,
      <<Call("kill_process", Obj({<<"process_name", JStr(<<" "," ">>)>>}))>>,
      <<Call("kill_process", Obj({<<"process_name", JStr(<<"?","!">>)>>}))>>,
      <<Call("kill_process", Obj({<<"process_name", JInt(5)>>}))>>,
      <<Call("kill_process", Obj({<<"process_name", JNull>>}))>>,
      <<Call("kill_process", EmptyObj)>>,
      <<Call("kill_process", NotObj)>>,
      <<Call("kill_process", Obj({<<"pid", JInt(7)>>}))>>,
      <<Call("monitor_cpu", EmptyObj), Call("kill_process", EmptyObj)>>,
      <<Call("scan_ports", Obj({<<"host", JStr(<<"l","o","c","a","l","h","o","s","t">>)>>}))>>,
      <<Call("scan_ports", Obj({<<"count", JInt(3)>>}))>>,
      <<Call("scan_ports", Obj({<<"host", JStr(<<"l","o","c","a","l","h","o","s","t">>)>>, <<"count", JInt(3)>>}))>>,
      <<Call("scan_ports", Obj({<<"host", JStr(<<"l","o","c","a","l","h","o","s","t">>)>>, <<"count", JInt(0)>>}))>>,
      <<Call("scan_ports", Obj({<<"host", JStr(<<"l","o","c","a","l","h","o","s","t">>)>>, <<"count", JInt(0 - 1)>>}))>>,
      <<Call("scan_ports", Obj({<<"host", JStr(<<"l","o","c","a","l","h","o","s","t">>)>>, <<"count", JFloat(250)>>}))>>,
      <<Call("scan_ports", Obj({<<"host", JStr(<<"l","o","c","a","l","h","o","s","t">>)>>, <<"count", JFloat(0 - 50)>>}))>>,
      <<Call("scan_ports", Obj({<<"host", JStr(<<"l","o","c","a","l","h","o","s","t">>)>>, <<"count", JStr(<<"m","a","n","y">>)>>}))>>,
      <<Call("scan_ports", Obj({<<"host", JStr(<<"l","o","c","a","l","h","o","s","t">>)>>, <<"count", JBool(TRUE)>>}))>>,
      <<Call("scan_ports", Obj({<<"host", JStr(<<"l","o","c","a","l","h","o","s","t">>)>>, <<"count", JNull>>}))>> }

RouteTexts ==
    { <<"k","i","l","l"," ","S","a","f","a","r","i">>,
      <<"c","l","e","a","r"," ","d","i","s","k"," ","c","a","c","h","e">>,
      <<"m","y"," ","c","p","u"," ","i","s"," ","o","n"," ","f","i","r","e">>,
      <<"w","h","y"," ","i","s"," ","m","y"," ","s","c","r","e","e","n"," ","p","u","r","p","l","e","?">>,
      <<"f","r","e","e"," ","m","e","m","o","r","y">>,
      <<"c","a","r"," ","b","a","t","t","e","r","y"," ","v","o","l","t","a","g","e">>,
      <<"v","e","h","i","c","l","e"," ","c","h","e","c","k","u","p">>,
      <<"s","l","o","w"," ","w","i","f","i">>,
      <<"i","s"," ","m","y"," ","c","p","u"," ","s","l","o","w">>,
      <<"b","o","o","t"," ","s","e","c","u","r","i","t","y"," ","u","p","d","a","t","e">>,
      <<"f","o","r","c","e"," ","q","u","i","t"," ","t","h","e"," ","a","p","p">>,
      <<"c","h","e","c","k"," ","e","n","g","i","n","e">>,
      <<"d","i","s","k"," ","s","p","a","c","e"," ","a","n","d"," ","r","a","m">>,
      <<"b","a","t","t","e","r","y"," ","h","e","a","l","t","h">>,
      <<"K","I","L","L"," ","t","h","e"," ","n","e","t","w","o","r","k">>,
      <<"t","i","r","e"," ","p","s","i">>,
      <<"m","y"," ","m","a","c"," ","i","s"," ","s","l","o","w">>,
      <<>>,
      <<"W","h","y"," ","i","s"," ","m","y"," ","S","c","r","e","e","n"," ","p","u","r","p","l","e","?">> }

\* Arguments as the cloud's protocol may return them
RawArgs ==
    { NotObj,
      EmptyObj,
      Obj({<<"count", JFloat(1000)>>, <<"name", JStr(<<"t","e","s","t",".">>)>>}),
      Obj({<<"ratio", JFloat(314)>>}),
      Obj({<<"ratio", JFloat(0 - 250)>>, <<"count", JFloat(0 - 300)>>}),
      Obj({<<"name", JStr(<<"w","h","a","t","?","!">>)>>, <<"host", JStr(<<"a",".","b">>)>>}),
      Obj({<<"name", JStr(<<".",".",".">>)>>, <<"host", JStr(<<>>)>>}),
      Obj({<<"flag", JBool(TRUE)>>, <<"none", JNull>>}),
      Obj({<<"inner", JObject(<<"t","e","s","t",".">>)>>}),
      Obj({<<"count", JInt(10)>>}),
      Obj({<<"count", JInt(2^MantissaBits + 1)>>}),
      Obj({<<"count", JInt(IntMax)>>}),
      Obj({<<"count", JFloat(100 * 2^MantissaBits)>>}),
      Obj({<<"count", JFloat(100 * 2^(IntBits - 1))>>}),
      Obj({<<"count", JFloat(100 * 2^IntBits)>>}),
      Obj({<<"count", JFloat(0 - 100 * 2^(IntBits - 1))>>}) }

UnitInit ==
    /\ modules = <<>>
    /\ tool_index = {}
    /\ nregs = 0
    /\ lastReg = [module |-> "", outcome |-> "none"]
    /\ api_key = "unset"
    /\ model = FALSE
    /\ pc = "unit"
    /\ panic_site = ""
    /\ user_input = <<>>
    /\ module_filter = None
    /\ tools = <<>>
    /\ attempt = 0
    /\ ffi_log = <<>>
    /\ od = None
    /\ accepted_reply = None
    /\ kw = None
    /\ cloud_attempt = 0
    /\ cloud_calls = 0
    /\ sleeps = <<>>
    /\ cloud = None
    /\ executed = <<>>
    /\ stages = <<>>
    /\ decision = None
    /\ lastExec = None
    /\ unit = None
    /\ conc = NoTasks

unitFrame == <<regVars, api_key, model, panic_site, conc, pc, reqVars, odVars, kw, cloudVars,
               executed, stages, decision, lastExec>>

\* validate_local_result(function_calls, confidence, tools, user_message)
Validate(function_calls, confidence, universe, user_message) ==
    /\ pc = "unit"
    /\ ~unit.some
    /\ unit' = Some([fn |-> "validate_local_result",
                     function_calls |-> function_calls,
                     confidence |-> confidence,
                     tools |-> universe,
                     user_message |-> user_message,
                     result |-> validate_local_result(function_calls, confidence,
                                                      universe, user_message)])
    /\ UNCHANGED unitFrame

\* engine.local_route(input, tools)
LocalRoute(input, universe) ==
    /\ pc = "unit"
    /\ ~unit.some
    /\ unit' = Some([fn |-> "local_route",
                     input |-> input,
                     tools |-> universe,
                     result |-> local_route(input, universe)])
    /\ UNCHANGED unitFrame

\* clean_args(raw_args)
CleanArgs(raw_args) ==
    /\ pc = "unit"
    /\ ~unit.some
    /\ unit' = Some([fn |-> "clean_args",
                     raw_args |-> raw_args,
                     result |-> clean_args(raw_args)])
    /\ UNCHANGED unitFrame

UnitNext ==
    \/ \E function_calls \in UnitCalls, confidence \in UnitConfidences,
          universe \in UnitUniverses, user_message \in UnitTexts :
            Validate(function_calls, confidence, universe, user_message)
    \/ \E input \in RouteTexts, universe \in UnitUniverses : LocalRoute(input, universe)
    \/ \E raw_args \in RawArgs : CleanArgs(raw_args)

UnitSpec == UnitInit /\ [][UnitNext]_vars

\* ------------------------------------------------- the handlers in flight
\* The tauri commands of lib.rs run as concurrent tasks.  Those that take the
\* state begin with state.lock().await on the one Mutex<AppState> and keep the
\* guard until they return; process_command awaits route while it holds it.  Here route is
\* followed through its suspension points and through its operations on the
\* shared capability; what each step of it decides is an input.
MaxTasks == 3

Handlers == {"process_command", "get_tools", "get_modules", "execute_tool"}

Task(handler) == [handler |-> handler, at |-> "lock", attempt |-> 0, cloud_attempt |-> 0]

\* tokio's Mutex is free
\* faulty variant: the handlers do not lock anything
MutexFree_Always(c) == TRUE
MutexFree(c) == c.holder = 0

\* The task's position moves; with "returned" the guard is dropped
MoveTask(c, t, task) ==
    [c EXCEPT !.tasks[t] = task,
              !.holder = IF task.at = "returned" THEN 0 ELSE c.holder]
LogOp(c, op, t) ==
    [c EXCEPT !.log = Append(c.log, [op |-> op, task |-> t,
                                     temperature |-> temperatures[c.tasks[t].attempt + 1]])]

ConcInit ==
    /\ modules = register(register(<<>>, {}, "Mac").modules,
                          register(<<>>, {}, "Mac").tool_index, "Auto").modules
    /\ tool_index = register(register(<<>>, {}, "Mac").modules,
                             register(<<>>, {}, "Mac").tool_index, "Auto").tool_index
    /\ nregs = 2
    /\ lastReg = [module |-> "Auto", outcome |-> "ok"]
    /\ api_key \in {"unset", "empty", "set"}
    /\ model \in BOOLEAN
    /\ pc = "serving"
    /\ panic_site = ""
    /\ user_input = <<>>
    /\ module_filter = None
    /\ tools = <<>>
    /\ attempt = 0
    /\ ffi_log = <<>>
    /\ od = None
    /\ accepted_reply = None
    /\ kw = None
    /\ cloud_attempt = 0
    /\ cloud_calls = 0
    /\ sleeps = <<>>
    /\ cloud = None
    /\ executed = <<>>
    /\ stages = <<>>
    /\ decision = None
    /\ lastExec = None
    /\ unit = None
    /\ conc = NoTasks

concFrame == <<regVars, api_key, model, panic_site, unit, pc, reqVars, odVars, kw, cloudVars,
               executed, stages, decision, lastExec>>

\* A command is invoked: its task reaches state.lock().await
TaskInvoke(handler) ==
    /\ pc = "serving"
    /\ Len(conc.tasks) < MaxTasks
    /\ conc' = [conc EXCEPT !.tasks = Append(conc.tasks, Task(handler)),
                            !.queue = Append(conc.queue, Len(conc.tasks) + 1)]
    /\ UNCHANGED concFrame

\* lock() returns the guard to the task that has waited longest
TaskAcquire(t) ==
    /\ pc = "serving"
    /\ conc.queue # <<>>
    /\ Head(conc.queue) = t
    /\ MutexFree(conc)
    /\ conc' = [conc EXCEPT !.holder = t,
                            !.queue = Tail(conc.queue),
                            !.tasks[t].at = IF conc.tasks[t].handler = "process_command"
                                            THEN "stage1" ELSE "locked"]
    /\ UNCHANGED concFrame

\* get_tools, get_modules, execute_tool: one call on the registry, then return
TaskIntrospect(t) ==
    /\ pc = "serving"
    /\ t \in 1..Len(conc.tasks)
    /\ conc.tasks[t].at = "locked"
    /\ conc' = MoveTask(conc, t, [conc.tasks[t] EXCEPT !.at = "returned"])
    /\ UNCHANGED concFrame

\* cactus_route_at_temp: model.reset()
TaskReset(t) ==
    /\ pc = "serving"
    /\ t \in 1..Len(conc.tasks)
    /\ conc.tasks[t].at = "stage1"
    /\ model
    /\ conc' = MoveTask(LogOp(conc, "reset", t), t, [conc.tasks[t] EXCEPT !.at = "complete"])
    /\ UNCHANGED concFrame

\* cactus_route_at_temp: model.complete(..), and what becomes of the reply:
\* it is rejected (the ladder goes on, or ends after the third temperature),
\* or accepted and step 1 returns it, or accepted and step 1 falls through
TaskComplete(t, verdict) ==
    /\ pc = "serving"
    /\ t \in 1..Len(conc.tasks)
    /\ conc.tasks[t].at = "complete"
    /\ LET n == conc.tasks[t].attempt + 1
           at == CASE verdict = "returned" -> "returned"
                   [] verdict = "fallthrough" -> "stage2"
                   [] verdict = "rejected" -> IF n = Len(temperatures) THEN "stage2" ELSE "stage1"
       IN  conc' = MoveTask(LogOp(conc, "complete", t), t,
                            [conc.tasks[t] EXCEPT !.at = at, !.attempt = n])
    /\ UNCHANGED concFrame

\* Without a model every cactus_route_at_temp returns None at once
TaskNoModel(t) ==
    /\ pc = "serving"
    /\ t \in 1..Len(conc.tasks)
    /\ conc.tasks[t].at = "stage1"
    /\ ~model
    /\ conc' = MoveTask(conc, t, [conc.tasks[t] EXCEPT !.at = "stage2"])
    /\ UNCHANGED concFrame

\* Step 2 returns the keyword guess or goes on to the cloud call
TaskHeuristic(t, accepted) ==
    /\ pc = "serving"
    /\ t \in 1..Len(conc.tasks)
    /\ conc.tasks[t].at = "stage2"
    /\ conc' = MoveTask(conc, t, [conc.tasks[t] EXCEPT
                                     !.at = IF accepted THEN "returned" ELSE "cloud"])
    /\ UNCHANGED concFrame

\* call_gemini(..).await comes back: with a result route returns from step 3
\* or step 4; without one the loop returns (key unset, or last attempt) and
\* step 4 returns, or the loop sleeps
TaskCloud(t, some) ==
    /\ pc = "serving"
    /\ t \in 1..Len(conc.tasks)
    /\ conc.tasks[t].at = "cloud"
    /\ some => api_key = "set"
    /\ conc' = MoveTask(conc, t,
                        [conc.tasks[t] EXCEPT
                            !.at = IF some \/ api_key = "unset"
                                      \/ conc.tasks[t].cloud_attempt = MaxRetries - 1
                                   THEN "returned" ELSE "backoff"])
    /\ UNCHANGED concFrame

\* tokio::time::sleep(..).await comes back
TaskBackoff(t) ==
    /\ pc = "serving"
    /\ t \in 1..Len(conc.tasks)
    /\ conc.tasks[t].at = "backoff"
    /\ conc' = MoveTask(conc, t, [conc.tasks[t] EXCEPT
                                     !.at = "cloud", !.cloud_attempt = @ + 1])
    /\ UNCHANGED concFrame

ConcNext ==
    \/ \E handler \in Handlers : TaskInvoke(handler)
    \/ \E t \in 1..MaxTasks : TaskAcquire(t)
    \/ \E t \in 1..MaxTasks : TaskIntrospect(t)
    \/ \E t \in 1..MaxTasks : TaskReset(t)
    \/ \E t \in 1..MaxTasks, verdict \in {"rejected", "returned", "fallthrough"} :
          TaskComplete(t, verdict)
    \/ \E t \in 1..MaxTasks : TaskNoModel(t)
    \/ \E t \in 1..MaxTasks, accepted \in BOOLEAN : TaskHeuristic(t, accepted)
    \/ \E t \in 1..MaxTasks, some \in BOOLEAN : TaskCloud(t, some)
    \/ \E t \in 1..MaxTasks : TaskBackoff(t)

ConcSpec == ConcInit /\ [][ConcNext]_vars

\* ------------------------------------------------ transcription requests
\* transcribe_audio takes no lock on AppState and touches nothing of the
\* engine: its tasks share only the two OnceLocks of ensure_whisper, and they
\* run in parallel on the runtime's worker threads.
MaxTranscribes == 2

\* transcribe_audio is invoked
TranscribeInvoke ==
    /\ pc = "serving"
    /\ Len(conc.tasks) < MaxTranscribes
    /\ conc' = [conc EXCEPT !.tasks = Append(conc.tasks,
                                             [Task("transcribe_audio") EXCEPT !.at = "decode"])]
    /\ UNCHANGED concFrame

\* The events of ensure_whisper, in order
WhisperOp(c, op, t) == [c EXCEPT !.whisper_log = Append(c.whisper_log, [op |-> op, task |-> t])]

\* The base64 payload is decoded; a payload that does not decode returns the
\* error, any other goes on to call ensure_whisper
TaskDecode(t, decoded) ==
    /\ pc = "serving"
    /\ t \in 1..Len(conc.tasks)
    /\ conc.tasks[t].at = "decode"
    /\ conc' = IF decoded
               THEN [WhisperOp(conc, "ensure", t) EXCEPT !.tasks[t].at = "ready_get"]
               ELSE [conc EXCEPT !.tasks[t].at = "returned"]
    /\ UNCHANGED concFrame

\* ensure_whisper: WHISPER_READY.get()
TaskWhisperReady(t) ==
    /\ pc = "serving"
    /\ t \in 1..Len(conc.tasks)
    /\ conc.tasks[t].at = "ready_get"
    /\ conc' = [conc EXCEPT !.tasks[t].at = IF conc.whisper_ready THEN "transcribe"
                                            ELSE "failed_get"]
    /\ UNCHANGED concFrame

\* ensure_whisper: WHISPER_FAILED.get()
TaskWhisperFailed(t) ==
    /\ pc = "serving"
    /\ t \in 1..Len(conc.tasks)
    /\ conc.tasks[t].at = "failed_get"
    /\ conc' = [conc EXCEPT !.tasks[t].at = IF conc.whisper_failed THEN "returned" ELSE "load"]
    /\ UNCHANGED concFrame

\* ensure_whisper: the model directory is looked up and CactusModel::new is
\* called.  No directory, or a failed load, sets WHISPER_FAILED and returns
\* the error; a loaded model is offered to WHISPER_READY, which keeps the
\* first one it was given.
TaskWhisperLoad(t, outcome) ==
    /\ pc = "serving"
    /\ t \in 1..Len(conc.tasks)
    /\ conc.tasks[t].at = "load"
    /\ conc' = CASE outcome = "no_path" ->
                      [WhisperOp(conc, "no_path", t) EXCEPT !.whisper_failed = TRUE,
                                                            !.tasks[t].at = "returned"]
                 [] outcome = "err" ->
                      [WhisperOp(conc, "new_err", t) EXCEPT !.whisper_failed = TRUE,
                                                            !.tasks[t].at = "returned"]
                 [] outcome = "ok" ->
                      [WhisperOp(conc, "new_ok", t) EXCEPT !.whisper_ready = TRUE,
                                                           !.tasks[t].at = "transcribe"]
    /\ UNCHANGED concFrame

\* whisper.transcribe_pcm(..), and the text or the error is returned
TaskTranscribe(t) ==
    /\ pc = "serving"
    /\ t \in 1..Len(conc.tasks)
    /\ conc.tasks[t].at = "transcribe"
    /\ conc' = [conc EXCEPT !.tasks[t].at = "returned"]
    /\ UNCHANGED concFrame

WhisperNext ==
    \/ TranscribeInvoke
    \/ \E t \in 1..MaxTranscribes, decoded \in BOOLEAN : TaskDecode(t, decoded)
    \/ \E t \in 1..MaxTranscribes : TaskWhisperReady(t)
    \/ \E t \in 1..MaxTranscribes : TaskWhisperFailed(t)
    \/ \E t \in 1..MaxTranscribes, outcome \in {"no_path", "err", "ok"} :
          TaskWhisperLoad(t, outcome)
    \/ \E t \in 1..MaxTranscribes : TaskTranscribe(t)

WhisperSpec == ConcInit /\ [][WhisperNext]_vars

\* ----------------------------------------------------------------- claims
Last(seq) == seq[Len(seq)]
StageOrder == <<1, 2, 3, 4>>

\* tool_allowed, false where evaluating it panics
SafeAllowed(name) == ~AllowedPanics(name) /\ tool_allowed(name)

\* Some registered module declares the tool (and has the filter's name, when a
\* filter is set)
InScope(name) ==
    \E j \in 1..Len(modules) :
        /\ Declares(modules[j], name)
        /\ module_filter.some => ModuleName(modules[j]) = module_filter.val

\* Why each step did not return
Stage1Rejected ==
    \/ ~od.some
    \/ ~SafeAllowed(od.val.calls[1].name)
    \/ executed # <<>> /\ executed[1].stage = 1 /\ executed[1].result.requires_cloud
Stage2Rejected ==
    kw.some /\ (kw.val.conf <= KwThreshold \/ ~SafeAllowed(kw.val.name))
Stage3Rejected ==
    \/ ~cloud.some
    \/ cloud.val = <<>>
    \/ ~SafeAllowed(cloud.val[1].name)

\* C1: the steps of route are entered in the order 1, 2, 3, 4, none skipped and
\* none twice; the work of a step (the keyword guess, a cloud call, an
\* execution) happens only once the step is entered; a later step is entered
\* only if every earlier one did not accept; and the step that returns the
\* Decision is the last one entered, after which nothing runs.
C1_StagesInOrder ==
    /\ stages = SubSeq(StageOrder, 1, Len(stages))
    /\ kw.some => 2 \in Range(stages)
    /\ cloud_calls > 0 => 3 \in Range(stages)
    /\ \A i \in 1..Len(executed) : executed[i].stage \in Range(stages)
    /\ Len(stages) >= 2 => Stage1Rejected
    /\ Len(stages) >= 3 => Stage2Rejected
    /\ Len(stages) >= 4 => Stage3Rejected
    /\ decision.some =>
          /\ pc = "done"
          /\ Len(stages) = IF decision.val.tool_result.some
                           THEN Last(executed).stage ELSE 4
C1_Witness ==
    /\ decision.some
    /\ stages = <<1, 2, 3>>
    /\ od.some
    /\ Len(executed) = 2

\* C2 (as claimed): during one route call registry.execute is invoked at most
\* once, and a Decision's tool result is the result of that single execution
\* of the Decision's tool.
C2_ExecuteAtMostOnce ==
    /\ Len(executed) <= 1
    /\ (decision.some /\ decision.val.tool_result.some) =>
          /\ Len(executed) = 1
          /\ executed[1].tool = decision.val.tool_name
          /\ executed[1].result = decision.val.tool_result.val

\* C2 (amended): registry.execute is invoked at most twice; a second execution
\* happens only after a step-1 execution whose result asked for the cloud;
\* a Decision's tool result is the result of the last execution, which ran the
\* Decision's tool with the Decision's arguments.
C2_ExecuteAtMostTwice ==
    /\ Len(executed) <= 2
    /\ Len(executed) = 2 =>
          /\ executed[1].stage = 1
          /\ executed[1].result.requires_cloud
          /\ executed[2].stage > 1
    /\ (decision.some /\ decision.val.tool_result.some) =>
          /\ executed # <<>>
          /\ Last(executed).tool = decision.val.tool_name
          /\ Last(executed).args = decision.val.arguments
          /\ Last(executed).result = decision.val.tool_result.val
          /\ decision.val.tool_result.val.tool = decision.val.tool_name
C2_Witness ==
    /\ decision.some
    /\ Len(executed) = 2
    /\ decision.val.tool_result = Some(executed[2].result)
    /\ executed[1].tool # executed[2].tool

\* C3 (as claimed): every tool executed during a route call is declared by a
\* registered module, and by one with the filter's name when a scope is set.
C3_OnlyAllowedExecuted ==
    \A i \in 1..Len(executed) : InScope(executed[i].tool)

\* Where a route call that has not returned takes its next step
RunningPcs == {"stage1", "stage1_check", "stage2", "stage3", "backoff", "stage3_check",
               "stage4"}

\* C4 (as claimed): a route call makes at most 3 on-device attempts and at most
\* 3 cloud attempts, and until it has returned its Decision it can take a
\* further step: it never ends without one.
C4_Terminates ==
    stages # <<>> =>
        /\ attempt <= 3
        /\ cloud_calls <= 3
        /\ decision.some \/ pc \in RunningPcs

\* C5 (as claimed): when the on-device ladder returned a Validator-accepted
\* result, the cloud capability is not invoked during the call.
C5_AcceptedNeverCloud ==
    od.some => cloud_calls = 0

\* C5 (amended): when the on-device ladder returned a Validator-accepted result
\* and step 1 returned it (its first call's tool was allowed, and the result of
\* executing it did not ask for the cloud), the cloud capability is not invoked
\* during the call.
C5_ReturnedNeverCloud ==
    (od.some /\ executed # <<>> /\ executed[1].stage = 1
        /\ ~executed[1].result.requires_cloud) =>
        /\ cloud_calls = 0
        /\ Len(stages) = 1
C5_Witness ==
    /\ od.some
    /\ decision.some
    /\ executed # <<>>
    /\ ~executed[1].result.requires_cloud
    /\ api_key = "set"
    /\ cloud_calls = 0

\* C6 (as claimed): a register call for a module one of whose tool names is
\* already indexed returns an error and leaves modules and tool_index as they
\* were.
C6_RegisterAtomic ==
    [][ (/\ nregs' = nregs + 1
         /\ \E i \in 1..Len(ModuleTools(lastReg'.module)) :
               MapHas(tool_index, ModuleTools(lastReg'.module)[i].name))
        => (/\ lastReg'.outcome = "err"
            /\ modules' = modules
            /\ tool_index' = tool_index) ]_vars

\* C7 (as claimed): after any sequence of register calls that returned, every
\* indexed tool name maps to a registered module, and that module declares it.
C7_IndexSound ==
    pc # "panicked" =>
        \A p \in tool_index :
            /\ p[2] < Len(modules)
            /\ Declares(modules[p[2] + 1], p[1])

\* C8 (as claimed): execute never panics, and for a name that no registered
\* module declares it returns success = false with an error message.
C8_ExecuteTotal ==
    /\ panic_site # "execute_tool"
    /\ (lastExec.some /\ ~\E j \in 1..Len(modules) : Declares(modules[j], lastExec.val.tool))
          => (~lastExec.val.success /\ lastExec.val.error # "")

\* C9: in every Decision the tool result is absent iff the Decision comes from
\* step 4; the source is "on-device" iff it comes from step 1 or 2 and
\* "cloud (fallback)" iff it comes from step 3 or 4.
C9_ResultAndSource ==
    decision.some =>
        LET d == decision.val
            s == Last(stages)
        IN  /\ ~d.tool_result.some <=> s = 4
            /\ d.source = "on-device" <=> s \in {1, 2}
            /\ d.source = "cloud (fallback)" <=> s \in {3, 4}
C9_Witness ==
    /\ decision.some
    /\ Last(stages) = 4
    /\ ~decision.val.tool_result.some
    /\ executed # <<>>
    /\ cloud.some

\* C10 (as claimed): a Decision of step 4 is the keyword guess of step 2 (same
\* tool, confidence and arguments), nothing was executed for it, it is tagged
\* "cloud (fallback)" with no tool result, and its arguments carry no_api_key
\* exactly when no cloud credential is configured (the key is unset or empty).
C10_ExhaustedGuess ==
    (decision.some /\ Last(stages) = 4) =>
        LET d == decision.val
            g == kw.val
        IN  /\ d.tool_name = g.name
            /\ d.confidence = g.conf
            /\ d.source = "cloud (fallback)"
            /\ ~d.tool_result.some
            /\ \A i \in 1..Len(executed) : executed[i].stage = 1
            /\ d.arguments.isObj
            /\ {p \in d.arguments.fields : p[1] # "no_api_key"} = g.args.fields
            /\ ArgHas(d.arguments, "no_api_key") <=> api_key # "set"

\* C11: every Decision returned by route has a confidence in [0,1] (0..100 in
\* hundredths), whatever confidence the on-device capability's reply carries.
C11_ConfidenceInRange ==
    decision.some => decision.val.confidence \in 0..100

\* Step 2 is over: it returned, fell through or panicked
Stage2Over == Len(stages) >= 2 /\ pc # "stage2"
Stage2Accepted == decision.some /\ Len(stages) = 2

\* C12: step 2 accepts the keyword guess iff its confidence is above 0.50 and
\* its tool is allowed under scope; on acceptance that tool is executed and the
\* Decision carries the guess's tool name, arguments and confidence, the source
\* on-device and a tool result, and the cloud capability is not invoked.
C12_HeuristicAccept ==
    Stage2Over =>
        LET g == local_route(user_input, tools)
        IN  /\ Stage2Accepted <=> (g.conf > 50 /\ SafeAllowed(g.name))
            /\ Stage2Accepted =>
                  /\ decision.val.tool_name = g.name
                  /\ decision.val.arguments = g.args
                  /\ decision.val.confidence = g.conf
                  /\ decision.val.source = "on-device"
                  /\ decision.val.tool_result.some
                  /\ Last(executed).stage = 2
                  /\ Last(executed).tool = g.name
                  /\ Last(executed).args = g.args
                  /\ decision.val.tool_result.val = Last(executed).result
                  /\ cloud_calls = 0


\* ---- the Validator, called directly
IsValidation == unit.some /\ unit.val.fn = "validate_local_result"

\* The declared type of an argument key under the matched tool's schema
\* ("" when the tool or the key is not declared)
DeclaredType(universe, call, key) ==
    IF call.name \in ToolNames(universe) /\ MapHas(FindTool(universe, call.name).props, key)
    THEN MapGet(FindTool(universe, call.name).props, key)
    ELSE ""

\* Every check of the Validator but the confidence gate passes
OtherChecksPass(u) ==
    /\ u.function_calls # <<>>
    /\ \A i \in 1..Len(u.function_calls) : CallValid(u.function_calls[i], u.tools, u.user_message)

\* C13: with every other check passing, the Validator accepts against a
\* universe of 3 or more tools iff the confidence is at least 0.90, and against
\* a universe of fewer than 3 tools whatever the confidence is.
C13_ConfidenceGate ==
    (IsValidation /\ OtherChecksPass(unit.val)) =>
        (unit.val.result <=> (Len(unit.val.tools) < 3 \/ unit.val.confidence >= 90))
C13_Witness ==
    /\ IsValidation
    /\ OtherChecksPass(unit.val)
    /\ Len(unit.val.tools) >= 3
    /\ unit.val.confidence = 90
    /\ unit.val.result

\* The alphanumeric tokens of a lower-cased text
Tokens(s) == Range(extract_words(s))

\* C14: the Validator accepts only if, for every call and every string argument
\* the call supplies, the value's token set is non-empty and every token is a
\* token of the user text.
C14_Grounding ==
    (IsValidation /\ unit.val.result) =>
        \A i \in 1..Len(unit.val.function_calls) :
            \A p \in unit.val.function_calls[i].arguments.fields :
                p[2].t = "string" =>
                    /\ Tokens(p[2].s) # {}
                    /\ Tokens(p[2].s) \subseteq Tokens(unit.val.user_message)

\* C15: the Validator rejects any call in which an argument whose schema type
\* is integer is not numeric or is negative.
C15_IntegersNumeric ==
    (IsValidation /\ unit.val.result) =>
        \A i \in 1..Len(unit.val.function_calls) :
            \A p \in unit.val.function_calls[i].arguments.fields :
                DeclaredType(unit.val.tools, unit.val.function_calls[i], p[1]) = "integer" =>
                    (p[2].t \in {"int", "float"} /\ p[2].n >= 0)

\* C16: the Validator rejects any call that lacks, as an argument key, a name of
\* the matched tool's required list, also when the arguments are not an object.
C16_RequiredPresent ==
    (IsValidation /\ unit.val.result) =>
        \A i \in 1..Len(unit.val.function_calls) :
            LET call == unit.val.function_calls[i]
            IN  call.name \in ToolNames(unit.val.tools) =>
                    \A k \in Range(FindTool(unit.val.tools, call.name).required) :
                        call.arguments.isObj /\ k \in MapKeys(call.arguments.fields)
C16_Witness ==
    /\ IsValidation
    /\ unit.val.function_calls = <<Call("kill_process", NotObj)>>
    /\ unit.val.tools = MacTools
    /\ unit.val.confidence = 100
    /\ ~unit.val.result

\* C17: the Validator rejects any call in which an argument whose schema type
\* is string is not a string value or is empty after trimming whitespace.
C17_StringsNonEmpty ==
    (IsValidation /\ unit.val.result) =>
        \A i \in 1..Len(unit.val.function_calls) :
            \A p \in unit.val.function_calls[i].arguments.fields :
                DeclaredType(unit.val.tools, unit.val.function_calls[i], p[1]) = "string" =>
                    (p[2].t = "string" /\ \E j \in 1..Len(p[2].s) : p[2].s[j] # " ")
C17_Witness ==
    /\ IsValidation
    /\ unit.val.function_calls = <<Call("kill_process", Obj({<<"process_name", JInt(5)>>}))>>
    /\ unit.val.tools = MacTools
    /\ unit.val.confidence = 100
    /\ ~unit.val.result

\* C18: the Validator rejects every call list in which any call, not only the
\* first, names a tool absent from the universe.
C18_NamesInUniverse ==
    (IsValidation /\ unit.val.result) =>
        \A i \in 1..Len(unit.val.function_calls) :
            unit.val.function_calls[i].name \in ToolNames(unit.val.tools)
C18_Witness ==
    /\ IsValidation
    /\ unit.val.function_calls = <<Call("monitor_cpu", EmptyObj), Call("bogus", EmptyObj)>>
    /\ unit.val.tools = MacTools
    /\ unit.val.confidence = 100
    /\ ~unit.val.result

\* C19: the Validator rejects an empty call list for every universe,
\* confidence and user text.
C19_EmptyRejected ==
    (IsValidation /\ unit.val.function_calls = <<>>) => ~unit.val.result
C19_Witness ==
    /\ IsValidation
    /\ unit.val.function_calls = <<>>
    /\ unit.val.tools = <<>>
    /\ unit.val.confidence = 100
    /\ ~unit.val.result

\* ---- the keyword router, called directly
IsRouting == unit.some /\ unit.val.fn = "local_route"

\* The categories of the cascade in their priority order, each with its
\* keywords and the tools it may answer with
Categories ==
    << [category |-> "kill-process",
        keywords |-> {<<"k","i","l","l">>, <<"q","u","i","t">>, <<"f","o","r","c","e">>},
        tools |-> {"kill_process"}],
       [category |-> "clear-caches",
        keywords |-> {<<"c","a","c","h","e">>, <<"c","l","e","a","r">>, <<"f","r","e","e">>},
        tools |-> {"clear_caches"}],
       [category |-> "full-checkup",
        keywords |-> {<<"c","h","e","c","k","u","p">>, <<"h","e","a","l","t","h">>, <<"e","v","e","r","y","t","h","i","n","g">>, <<"f","u","l","l">>},
        tools |-> {"run_full_checkup"}],
       [category |-> "battery",
        keywords |-> {<<"b","a","t","t","e","r","y">>, <<"p","o","w","e","r">>, <<"c","h","a","r","g","i","n","g">>},
        tools |-> {"diagnose_battery"}],
       [category |-> "network",
        keywords |-> {<<"n","e","t","w","o","r","k">>, <<"c","o","n","n","e","c","t","i","o","n">>, <<"w","i","f","i">>, <<"i","n","t","e","r","n","e","t">>},
        tools |-> {"diagnose_network", "monitor_network"}],
       [category |-> "startup",
        keywords |-> {<<"s","t","a","r","t","u","p">>, <<"b","o","o","t">>, <<"l","o","g","i","n">>},
        tools |-> {"check_startup_items"}],
       [category |-> "security",
        keywords |-> {<<"s","e","c","u","r","i","t","y">>, <<"s","e","c","u","r","e">>, <<"f","i","r","e","w","a","l","l">>, <<"u","p","d","a","t","e">>},
        tools |-> {"check_security"}],
       [category |-> "cpu",
        keywords |-> {<<"c","p","u">>, <<"p","r","o","c","e","s","s","o","r">>},
        tools |-> {"monitor_cpu"}],
       [category |-> "generic slow",
        keywords |-> {<<"s","l","o","w">>},
        tools |-> {"monitor_cpu"}],
       [category |-> "memory",
        keywords |-> {<<"m","e","m","o","r","y">>, <<"r","a","m">>},
        tools |-> {"monitor_memory"}],
       [category |-> "disk",
        keywords |-> {<<"d","i","s","k">>, <<"s","t","o","r","a","g","e">>, <<"s","p","a","c","e">>},
        tools |-> {"monitor_disk"}],
       [category |-> "vehicle checks",
        keywords |-> {<<"v","e","h","i","c","l","e"," ","c","h","e","c","k","u","p">>, <<"c","a","r"," ","d","i","a","g","n","o","s","t","i","c">>, <<"c","a","r"," ","c","h","e","c","k","u","p">>, <<"e","n","g","i","n","e">>, <<"o","b","d">>, <<"d","t","c">>, <<"r","p","m">>, <<"t","i","r","e">>, <<"t","y","r","e">>, <<"t","r","e","a","d">>, <<"p","s","i">>, <<"v","o","l","t","a","g","e">>, <<"c","c","a">>, <<"a","l","t","e","r","n","a","t","o","r">>, <<"c","a","r"," ","b","a","t","t","e","r","y">>, <<"f","l","u","i","d">>, <<"o","i","l"," ","l","e","v","e","l">>, <<"c","o","o","l","a","n","t">>, <<"b","r","a","k","e"," ","f","l","u","i","d">>, <<"t","r","a","n","s","m","i","s","s","i","o","n"," ","f","l","u","i","d">>},
        tools |-> {"run_vehicle_checkup", "check_engine", "check_tires", "check_battery_vehicle", "check_fluids"}] >>

\* The input with its upper-case letters replaced
LowerCased(s) == [i \in 1..Len(s) |-> LowerChar(s[i])]
CategoryHit(c, input) == \E word \in Categories[c].keywords : Contains(LowerCased(input), word)

\* C20: local_route answers with a tool of the highest-priority category one of
\* whose keywords is a substring of the lower-cased input, whatever keywords
\* of lower priority occur too, and the answer is that of the input alone.
C20_CascadePriority ==
    IsRouting =>
        /\ \A c \in 1..Len(Categories) :
              (CategoryHit(c, unit.val.input) /\ \A d \in 1..(c - 1) : ~CategoryHit(d, unit.val.input))
                  => unit.val.result.name \in Categories[c].tools
        /\ \A universe \in UnitUniverses :
              unit.val.result = local_route(unit.val.input, universe)
C20_Witness ==
    /\ IsRouting
    /\ unit.val.input = <<"K","I","L","L"," ","t","h","e"," ","n","e","t","w","o","r","k">>
    /\ unit.val.tools = MacTools
    /\ CategoryHit(1, unit.val.input) /\ CategoryHit(5, unit.val.input)
    /\ unit.val.result.name = "kill_process"

\* C21: when no category keyword occurs in the input, local_route answers
\* troubleshoot with the input text as it was given as the one argument
\* problem and the confidence 0.3; every other branch answers with a
\* confidence between 0.80 and 0.90.
C21_CatchAll ==
    IsRouting =>
        IF \A c \in 1..Len(Categories) : ~CategoryHit(c, unit.val.input)
        THEN /\ unit.val.result.name = "troubleshoot"
             /\ unit.val.result.args = Obj({<<"problem", JStr(unit.val.input)>>})
             /\ unit.val.result.conf = 30
        ELSE /\ unit.val.result.name # "troubleshoot"
             /\ unit.val.result.conf \in 80..90
C21_Witness ==
    /\ IsRouting
    /\ unit.val.input = <<"W","h","y"," ","i","s"," ","m","y"," ","S","c","r","e","e","n"," ","p","u","r","p","l","e","?">>
    /\ unit.val.result.name = "troubleshoot"
    /\ unit.val.result.args.fields = {<<"problem", JStr(unit.val.input)>>}

\* The cloud router of the request has returned
CloudRouterOver == Len(stages) >= 3 /\ pc \notin {"stage3", "backoff"}

\* C22: with no cloud credential configured (GEMINI_API_KEY unset or empty)
\* the cloud router makes exactly one attempt, performs no backoff wait and
\* returns no result.
C22_NoCredentialNoRetry ==
    api_key \in {"unset", "empty"} =>
        /\ cloud_calls <= 1
        /\ sleeps = <<>>
        /\ ~cloud.some
        /\ CloudRouterOver => cloud_calls = 1

\* C23: once register(module) has succeeded, has_tool reports every tool name
\* the module declares and execute of that name is delegated to that module,
\* whatever register calls, successful or failed, come later.
C23_RegisteredDispatch ==
    \A j \in 1..Len(modules) :
        \A i \in 1..Len(ModuleTools(modules[j])) :
            LET name == ModuleTools(modules[j])[i].name
            IN  /\ has_tool(tool_index, name)
                /\ ~IndexPanics(modules, tool_index, name)
                /\ MapGet(tool_index, name) = j - 1
                /\ execute(modules, tool_index, name, EmptyObj, FALSE).module = modules[j]
                /\ execute(modules, tool_index, name, EmptyObj, FALSE).error # "Unknown tool"
C23_Witness ==
    /\ Len(modules) = 2
    /\ nregs = 3
    /\ lastReg.outcome = "err"
    /\ C23_RegisteredDispatch

\* The complete calls and the resets made on the capability, in order
Completes == SelectSeq(ffi_log, LAMBDA e : e.op = "complete")
Resets == SelectSeq(ffi_log, LAMBDA e : e.op = "reset")
Stage1Over == Len(stages) >= 2 \/ pc \in {"stage1_check", "done"}

\* The state part of C25
LadderState ==
    /\ Len(Completes) <= 3
    /\ \A k \in 1..Len(Completes) : Completes[k].temperature = <<0, 30, 70>>[k]
    /\ od.some => Len(Completes) >= 1
    /\ (Stage1Over /\ stages # <<>> /\ ~od.some) => Len(Completes) = IF model THEN 3 ELSE 0
    /\ ~model => Len(Completes) = 0

\* C25: the on-device router invokes the capability at the temperatures 0.0,
\* 0.3, 0.7 in that order, at most once each; it returns the result of the
\* first attempt the Validator accepts and makes no attempt after it; with no
\* attempt accepted it yields no result after exactly three attempts, and after
\* none when no capability is configured.
C25_TemperatureLadder ==
    [][ /\ LadderState'
        /\ od.some => UNCHANGED <<ffi_log, od>>
        /\ (od' # od /\ od'.some) =>
              /\ Completes' # Completes
              /\ od'.val = ParseReply(accepted_reply'.val).val
              /\ validate_local_result(od'.val.calls, od'.val.confidence, tools', user_input')
      ]_vars
C25_Witness ==
    /\ od.some
    /\ Len(Completes) = 2
    /\ Completes[2].temperature = 30
    /\ decision.some

\* A reply that parses and carries every field: the confidence, the
\* function-call list and, for each call of it, the name
WellFormed(reply) ==
    /\ reply.kind = "json"
    /\ reply.confidence.some
    /\ reply.calls.some
    /\ \A i \in 1..Len(reply.calls.val) : reply.calls.val[i].name.some

\* C26: an on-device attempt whose capability call fails, or whose reply does
\* not parse or lacks the confidence, the function-call list or a call's name,
\* is never accepted.
C26_IncompleteNeverAccepted ==
    accepted_reply.some => WellFormed(accepted_reply.val)

\* C27: every complete of the request comes right after a reset by the same
\* request, for the same attempt, and there is one reset for each attempt.
C27_ResetBeforeComplete ==
    /\ \A i \in 1..Len(ffi_log) :
          ffi_log[i].op = "complete" =>
              /\ i > 1
              /\ ffi_log[i - 1].op = "reset"
              /\ ffi_log[i - 1].temperature = ffi_log[i].temperature
    /\ Len(Resets) = Len(Completes)
    /\ Len(Resets) = IF model THEN attempt ELSE 0
C27_Witness ==
    /\ model
    /\ attempt = 3
    /\ Len(ffi_log) = 6
    /\ decision.some

\* C29: when the result of the tool executed in step 1 carries
\* requires_cloud = true, route does not return that result: the chain goes on
\* with step 2.
C29_EscalationDiscarded ==
    (executed # <<>> /\ executed[1].stage = 1 /\ executed[1].result.requires_cloud) =>
        /\ Len(stages) >= 2
        /\ stages[2] = 2
        /\ decision.some =>
              /\ Len(stages) > 1
              /\ decision.val.tool_result.some => Last(executed).stage # 1
C29_Witness ==
    /\ executed # <<>>
    /\ executed[1].stage = 1
    /\ executed[1].result.requires_cloud
    /\ decision.some
    /\ Len(stages) >= 2

\* C30: step 3 accepts the first call, in the order of the cloud result's
\* calls, whose tool is allowed under scope, executes it and returns it with the
\* source cloud (fallback); no Validator check is applied to it.
C30_FirstAllowedCloudCall ==
    (cloud.some /\ CloudRouterOver /\ pc # "stage3_check"
        /\ \E i \in 1..Len(cloud.val) : SafeAllowed(cloud.val[i].name)) =>
        LET first == CHOOSE i \in 1..Len(cloud.val) :
                        /\ SafeAllowed(cloud.val[i].name)
                        /\ \A j \in 1..(i - 1) : ~SafeAllowed(cloud.val[j].name)
        IN  decision.some =>
                /\ decision.val.tool_name = cloud.val[first].name
                /\ decision.val.arguments = cloud.val[first].arguments
                /\ decision.val.source = "cloud (fallback)"
                /\ decision.val.tool_result.some
                /\ Last(executed).stage = 3
                /\ Last(executed).tool = cloud.val[first].name

\* A process_command task that holds the guard and is suspended in route: on
\* the on-device call, on the cloud call or in a backoff sleep
RouteInFlight ==
    /\ conc.holder # 0
    /\ conc.tasks[conc.holder].handler = "process_command"
    /\ conc.tasks[conc.holder].at \in {"complete", "cloud", "backoff"}

\* C24: get_tools, get_modules and execute_tool never wait on a routing request
\* in flight.
C24_IntrospectionNeverWaits ==
    RouteInFlight =>
        \A i \in 1..Len(conc.queue) : conc.tasks[conc.queue[i]].handler = "process_command"

\* C28: with several process_command requests in flight, no reset or complete
\* of one request comes between another request's reset and the complete that
\* follows it: each complete comes right after the reset of its own request.
C28_CompleteSeesOwnReset ==
    \A i \in 1..Len(conc.log) :
        conc.log[i].op = "complete" =>
            /\ i > 1
            /\ conc.log[i - 1].op = "reset"
            /\ conc.log[i - 1].task = conc.log[i].task
            /\ conc.log[i - 1].temperature = conc.log[i].temperature
C28_Witness ==
    /\ Len(conc.log) >= 4
    /\ \E i, j \in 1..Len(conc.log) : conc.log[i].task # conc.log[j].task
    /\ \E t \in 1..Len(conc.tasks) :
          /\ conc.tasks[t].handler = "process_command"
          /\ conc.tasks[t].at = "lock"
    /\ RouteInFlight

\* ================================================================ C31..C38
\* The delays of a run of the retry loop in which n attempts were followed by
\* a wait: k time-units after the k-th failed attempt
LinearDelays(n) == [k \in 1..n |-> BackoffUnit * k]

KillFillers ==
    { <<"k","i","l","l">>, <<"q","u","i","t">>, <<"f","o","r","c","e">>,
      <<"p","r","o","c","e","s","s">>, <<"t","h","e">>, <<"a","p","p">>,
      <<"p","l","e","a","s","e">> }
LastWord(input) == Last(split_whitespace(LowerCased(input)))

\* C32: for a kill-process match the answer is kill_process with confidence
\* 0.85 and the single argument process_name: the last whitespace-separated
\* word of the lower-cased input, or "unknown" when that word is one of kill,
\* quit, force, process, the, app, please; "kill Safari" gives "safari".
C32_KillTarget ==
    (IsRouting /\ CategoryHit(1, unit.val.input)) =>
        /\ unit.val.result.name = "kill_process"
        /\ unit.val.result.conf = 85
        /\ unit.val.result.args =
              Obj({<<"process_name",
                     JStr(IF LastWord(unit.val.input) \in KillFillers
                          THEN <<"u","n","k","n","o","w","n">>
                          ELSE LastWord(unit.val.input))>>})
        /\ unit.val.input = <<"k","i","l","l"," ","S","a","f","a","r","i">> =>
              ArgGet(unit.val.result.args, "process_name") = JStr(<<"s","a","f","a","r","i">>)
C32_Witness ==
    /\ IsRouting
    /\ unit.val.input = <<"f","o","r","c","e"," ","q","u","i","t"," ","t","h","e"," ","a","p","p">>
    /\ LastWord(unit.val.input) = <<"a","p","p">>
    /\ unit.val.result.name = "kill_process"
    /\ ArgGet(unit.val.result.args, "process_name") = JStr(<<"u","n","k","n","o","w","n">>)

\* The route call is over: it returned a Decision or it panicked
RouteOver == decision.some \/ (pc = "panicked" /\ panic_site = "route")
Stage1Returned == decision.some /\ Len(stages) = 1

\* C33: the cloud capability is invoked during a route call iff step 1 did
\* not return a Decision and the heuristic's guess is the catch-all
\* (troubleshoot) or a tool that is not allowed under scope; every guess other
\* than the catch-all has a confidence above the step-2 threshold.
C33_CloudInvokedIff ==
    RouteOver =>
        LET g == local_route(user_input, tools)
        IN  /\ g.name # "troubleshoot" => g.conf > KwThreshold
            /\ cloud_calls > 0 <=>
                  (~Stage1Returned /\ (g.name = "troubleshoot" \/ ~SafeAllowed(g.name)))

\* Every register call so far succeeded, and no two registered modules have
\* the same name
CleanRegistry ==
    /\ nregs = Len(modules)
    /\ \A i, j \in 1..Len(modules) : ModuleName(modules[i]) = ModuleName(modules[j]) => i = j

\* C34: in a registry built only from successful registrations of modules with
\* distinct names, the first call of a Validator-accepted on-device result is
\* allowed under scope: step 1 executes it, and falls through to step 2 only
\* when the executed tool's result carries the escalate-to-cloud signal.
C34_AcceptedIsAllowed ==
    (CleanRegistry /\ od.some) =>
        /\ ~AllowedPanics(od.val.calls[1].name)
        /\ tool_allowed(od.val.calls[1].name)
        /\ pc # "panicked"
        /\ pc # "stage1_check" =>
              /\ executed # <<>>
              /\ executed[1].stage = 1
              /\ executed[1].tool = od.val.calls[1].name
              /\ Len(stages) >= 2 <=> executed[1].result.requires_cloud
C34_Witness ==
    /\ CleanRegistry
    /\ Len(modules) = 2
    /\ module_filter = Some("mac_troubleshoot")
    /\ od.some
    /\ od.val.calls[1].name = "troubleshoot"
    /\ Len(stages) >= 2
    /\ executed[1].result.requires_cloud

\* C35: register never panics; registering a module that declares the same
\* tool name twice (the name colliding with no earlier module) returns an
\* error and leaves the registry as it was, without the module's names.
C35_RegisterNeverPanics ==
    /\ lastReg.outcome # "panic"
    /\ panic_site # "register"
    /\ lastReg.module = "Dup" =>
          /\ lastReg.outcome = "err"
          /\ \A i \in 1..Len(DupTools) : ~has_tool(tool_index, DupTools[i].name)
          /\ \A j \in 1..Len(modules) : modules[j] # "Dup"

\* The text names one of the system-critical processes, in whatever case
NamesCritical(s) == \E f \in Forbidden : Contains(LowerCased(s), LowerCased(f))

\* The result is one that kill_process builds from the output of pkill
PkillInvoked(result) ==
    /\ result.tool = "kill_process"
    /\ result.module = "Mac"
    /\ result.error \in {"", "Process not found or could not be killed"}

\* C36: an execution of kill_process whose process_name names a
\* system-critical process (kernel_task, launchd, WindowServer, loginwindow)
\* does not invoke pkill and returns success = false, also when the name is
\* the lower-cased word that the heuristic router took from the user's text.
C36_CriticalNeverKilled ==
    \A i \in 1..Len(executed) :
        LET e == executed[i]
        IN  (/\ e.tool = "kill_process"
             /\ ArgHas(e.args, "process_name")
             /\ ArgGet(e.args, "process_name").t = "string"
             /\ NamesCritical(ArgGet(e.args, "process_name").s)) =>
                /\ ~e.result.success
                /\ ~PkillInvoked(e.result)

\* The events of ensure_whisper: calls of CactusModel::new that returned a
\* model, and events that set WHISPER_FAILED
WhisperLoads == {i \in 1..Len(conc.whisper_log) : conc.whisper_log[i].op = "new_ok"}
WhisperFailures ==
    {i \in 1..Len(conc.whisper_log) : conc.whisper_log[i].op \in {"new_err", "no_path"}}

\* C37: the Whisper model is loaded at most once, also when several first
\* transcription requests run at the same time; and a call of ensure_whisper
\* that starts after a load attempt has failed does not attempt to load.
C37_WhisperLoadedOnce ==
    /\ Cardinality(WhisperLoads) <= 1
    /\ \A i \in WhisperFailures :
          \A j \in (i + 1)..Len(conc.whisper_log) :
              conc.whisper_log[j].op = "ensure" =>
                  \A k \in (j + 1)..Len(conc.whisper_log) :
                      conc.whisper_log[k].task = conc.whisper_log[j].task
                          => conc.whisper_log[k].op = "ensure"

\* ---- clean_args, called directly
IsCleaning == unit.some /\ unit.val.fn = "clean_args"

\* s without its trailing characters among . , ! ? ; :
Stripped(s) ==
    LET keep == {k \in 1..Len(s) : s[k] \notin {".", ",", "!", "?", ";", ":"}}
    IN  IF keep = {} THEN <<>>
        ELSE SubSeq(s, 1, CHOOSE k \in keep : \A j \in keep : j <= k)

\* C38: clean_args replaces each top-level integral-valued float by the equal
\* integer, leaves non-integral numbers and inputs that are not objects as
\* they are, strips every trailing character among . , ! ? ; : from each
\* top-level string and touches nothing below the top level; applied to its
\* own result it changes nothing.
C38_CleanArgs ==
    IsCleaning =>
        LET raw == unit.val.raw_args
            res == unit.val.result
        IN  /\ ~raw.isObj => res = raw
            /\ raw.isObj =>
                  /\ res.isObj
                  /\ MapKeys(res.fields) = MapKeys(raw.fields)
                  /\ \A p \in raw.fields :
                        LET v == p[2]
                            c == MapGet(res.fields, p[1])
                        IN  /\ (v.t = "float" /\ v.n % 100 = 0) => c = JInt(v.n \div 100)
                            /\ (v.t = "float" /\ v.n % 100 # 0) => c = v
                            /\ v.t = "string" => c = JStr(Stripped(v.s))
                            /\ v.t \in {"object", "bool", "null"} => c = v
            /\ clean_args(res) = res
====
